---------------------------- MODULE Spec2Model ----------------------------
(***************************************************************************)
(* A model of the extraction orchestration engine of the event speaker     *)
(* scraper: URL filter, identity keys, the two scrape strategies, the      *)
(* POST /api/extraction/map run with its job row, and the persistence of   *)
(* the extracted sessions and speakers.                                    *)
(*                                                                         *)
(* Strings are sequences of code points.  An ASCII code point is written   *)
(* as the one-character string itself; the few non-ASCII code points the   *)
(* model uses have names ("e_acute", "COMBINING_ACUTE", "TAB").            *)
(***************************************************************************)
EXTENDS Integers, Sequences, FiniteSets, TLC

VARIABLES
    fnIn,           \* arguments of the pure function under check
    fnOut,          \* its result, NotCalled before the call
    db,             \* the tables sessions, organizations, speakers, session_speakers
    persistCalls,   \* the persist calls made so far: input and returned counts
    pc,             \* where POST stands: the await it is suspended at, or a point
                    \* of its synchronous code
    aborted,        \* request.signal.aborted
    request,        \* the body of the request
    site,           \* what the crawled site answers: the map result and, per page,
                    \* the outcomes of the probe and of the scrape passes
    logLines,       \* POST's logLines
    job,            \* the job row
    jobWrites,      \* the statuses written to the job row, in order
    run,            \* POST's other locals
    api,            \* the locals of runBrowserApiStrategy
    fb,             \* the locals of runFirecrawlFallbackStrategy
    trip,           \* where the run stood when the signal tripped
    issued,         \* the calls issued while the signal was tripped
    dbFaults,       \* the number of database calls that have failed
    response        \* the HTTP response

fnVars == <<fnIn, fnOut>>
dbVars == <<db, persistCalls>>
runVars == <<pc, aborted, request, site, logLines, job, jobWrites, run, api, fb, trip,
             issued, dbFaults, response>>
vars == <<fnIn, fnOut, db, persistCalls, pc, aborted, request, site, logLines, job,
          jobWrites, run, api, fb, trip, issued, dbFaults, response>>

\* the call of a function: not made yet, returned a value, or threw
NotCalled == [state |-> "not called", value |-> <<>>]
Threw == [state |-> "threw", value |-> <<>>]
Returned(v) == [state |-> "returned", value |-> v]
\* JavaScript's undefined, where a string is optional
Undefined == <<"<undefined>">>

FnIdle == fnIn = [fn |-> "none"] /\ fnOut = [state |-> "not called", value |-> <<>>]

(* JavaScript evaluates an argument once, before the call: Eager applies F *)
(* to the value of v                                                      *)

Eager(v, F(_)) == CHOOSE r \in {F(x) : x \in {v}} : TRUE
Eager2(v, w, F(_, _)) == CHOOSE r \in {F(x, y) : x \in {v}, y \in {w}} : TRUE

---------------------------------------------------------------------------
(* String primitives of the JavaScript runtime *)

UpperAlpha == <<"A", "B", "C", "D", "E", "F", "G", "H", "I", "J", "K", "L", "M", "N", "O", "P", "Q", "R", "S", "T", "U", "V", "W", "X", "Y", "Z">>
LowerAlpha == <<"a", "b", "c", "d", "e", "f", "g", "h", "i", "j", "k", "l", "m", "n", "o", "p", "q", "r", "s", "t", "u", "v", "w", "x", "y", "z">>
DigitChars == <<"0", "1", "2", "3", "4", "5", "6", "7", "8", "9">>

Range(s) == Eager(s, LAMBDA v : {v[i] : i \in 1..Len(v)})

\* String.prototype.toLowerCase, one code point
ToLowerChar(c) ==
    IF c \in Range(UpperAlpha)
    THEN LowerAlpha[CHOOSE i \in 1..Len(UpperAlpha) : UpperAlpha[i] = c]
    ELSE IF c = "E_ACUTE" THEN "e_acute" ELSE c

toLowerCase(s) == Eager(s, LAMBDA v : [i \in 1..Len(v) |-> ToLowerChar(v[i])])

\* the white space of String.prototype.trim and of the regex class \s
IsSpace(c) == c \in {" ", "TAB", "NEWLINE"}

\* the regex class \w (no u flag): ASCII letters, digits and underscore
IsWordChar(c) == c \in Range(UpperAlpha) \cup Range(LowerAlpha) \cup Range(DigitChars) \cup {"_"}

RECURSIVE trimStart(_)
trimStart(s) ==
    IF s # <<>> /\ IsSpace(Head(s)) THEN trimStart(Tail(s)) ELSE s

RECURSIVE trimEnd(_)
trimEnd(s) ==
    IF s # <<>> /\ IsSpace(s[Len(s)]) THEN trimEnd(SubSeq(s, 1, Len(s) - 1)) ELSE s

trim(s) == Eager(trimStart(s), trimEnd)

\* String.prototype.normalize("NFKD"): compatibility decomposition
RECURSIVE normalizeNFKD(_)
normalizeNFKD(s) ==
    IF s = <<>> THEN <<>>
    ELSE (CASE Head(s) = "e_acute" -> <<"e", "COMBINING_ACUTE">>
            [] Head(s) = "E_ACUTE" -> <<"E", "COMBINING_ACUTE">>
            [] OTHER -> <<Head(s)>>) \o normalizeNFKD(Tail(s))

\* .replace(/[^\w\s]/g, " ")
replaceNonWordNonSpace(s) ==
    Eager(s, LAMBDA v :
        [i \in 1..Len(v) |-> IF IsWordChar(v[i]) \/ IsSpace(v[i]) THEN v[i] ELSE " "])

\* .replace(/\s+/g, " ")
RECURSIVE collapseWhitespace(_)
collapseWhitespace(s) ==
    IF s = <<>> THEN <<>>
    ELSE IF IsSpace(Head(s))
         THEN <<" ">> \o collapseWhitespace(trimStart(s))
         ELSE <<Head(s)>> \o collapseWhitespace(Tail(s))

\* String.prototype.indexOf / lastIndexOf of one code point, 1-based, 0 when absent
indexOf(s, c) ==
    Eager(s, LAMBDA v :
        IF c \in Range(v)
        THEN CHOOSE i \in 1..Len(v) : v[i] = c /\ \A j \in 1..(i - 1) : v[j] # c
        ELSE 0)

lastIndexOf(s, c) ==
    Eager(s, LAMBDA v :
        IF c \in Range(v)
        THEN CHOOSE i \in 1..Len(v) : v[i] = c /\ \A j \in (i + 1)..Len(v) : v[j] # c
        ELSE 0)

\* String.prototype.includes
includes(s, sub) ==
    Eager2(s, sub, LAMBDA v, w :
        \E i \in 0..(Len(v) - Len(w)) : SubSeq(v, i + 1, i + Len(w)) = w)

---------------------------------------------------------------------------
(* JavaScript Map: a sequence of [key, value] entries in insertion order *)

MapHas(m, k) == Eager2(m, k, LAMBDA mv, kv : \E i \in 1..Len(mv) : mv[i].key = kv)
MapGet(m, k) ==
    Eager2(m, k, LAMBDA mv, kv : mv[CHOOSE i \in 1..Len(mv) : mv[i].key = kv].value)
MapSet(m, k, v) ==
    Eager2(m, [key |-> k, value |-> v], LAMBDA mv, e :
        IF \E i \in 1..Len(mv) : mv[i].key = e.key
        THEN [i \in 1..Len(mv) |-> IF mv[i].key = e.key THEN e ELSE mv[i]]
        ELSE Append(mv, e))
\* a write that replaces the entry of a key already present
MapSetIfAbsentOverwrites(m, k, v) == MapSet(m, k, v)
MapSetIfAbsent(m, k, v) ==
    Eager2(m, [key |-> k, value |-> v], LAMBDA mv, e :
        IF \E i \in 1..Len(mv) : mv[i].key = e.key THEN mv ELSE Append(mv, e))
MapValues(m) == Eager(m, LAMBDA mv : [i \in 1..Len(mv) |-> mv[i].value])
MapKeys(m) == Eager(m, LAMBDA mv : [i \in 1..Len(mv) |-> mv[i].key])

---------------------------------------------------------------------------
(* The URL class.  The model parses absolute URLs of the form              *)
(* scheme ":" ["//" host] path ["?" query] ["#" fragment]; user info,      *)
(* ports, dot segments and percent-encoding are outside the inputs used.   *)

SpecialSchemes == {<<"h", "t", "t", "p">>, <<"h", "t", "t", "p", "s">>, <<"f", "t", "p">>, <<"w", "s">>, <<"w", "s", "s">>}

IsSchemeChar(c) ==
    c \in Range(UpperAlpha) \cup Range(LowerAlpha) \cup Range(DigitChars) \cup {"+", "-", "."}

\* first index in s of a code point of set cs, Len(s) + 1 when there is none
FirstOf(s, cs) ==
    Eager(s, LAMBDA v :
        IF \E i \in 1..Len(v) : v[i] \in cs
        THEN CHOOSE i \in 1..Len(v) : v[i] \in cs /\ \A j \in 1..(i - 1) : v[j] \notin cs
        ELSE Len(v) + 1)

RECURSIVE skipSlashes(_)
skipSlashes(s) ==
    IF s # <<>> /\ Head(s) = "/" THEN skipSlashes(Tail(s)) ELSE s

ParseFailed == [ok |-> FALSE]

\* s cut at its first code point of cs: what is before it, and the rest from it on
SplitAt(s, cs) ==
    Eager2(s, FirstOf(s, cs), LAMBDA v, at :
        [before |-> SubSeq(v, 1, at - 1), from |-> SubSeq(v, at, Len(v))])

\* the authority and path of a special scheme
ParseHierarchical(scheme, hier, search, fragment) ==
    Eager(SplitAt(skipSlashes(hier), {"/"}), LAMBDA a :
        IF a.before = <<>> THEN ParseFailed
        ELSE [ok |-> TRUE, protocol |-> scheme \o <<":">>, hostname |-> toLowerCase(a.before),
              pathname |-> IF a.from = <<>> THEN <<"/">> ELSE a.from,
              search |-> search, hash |-> fragment])

\* what follows "scheme:": fragment, then query, then authority and path
ParseAfterScheme(scheme, rest) ==
    Eager(SplitAt(rest, {"#"}), LAMBDA f :
    Eager(SplitAt(f.before, {"?"}), LAMBDA q :
        IF scheme \in SpecialSchemes
        THEN ParseHierarchical(scheme, q.before, q.from,
                               IF f.from = <<>> THEN <<>> ELSE Tail(f.from))
        ELSE [ok |-> TRUE, protocol |-> scheme \o <<":">>, hostname |-> <<>>,
              pathname |-> q.before, search |-> q.from,
              hash |-> IF f.from = <<>> THEN <<>> ELSE Tail(f.from)]))

\* new URL(input): the parsed record, or ParseFailed where the constructor throws
ParseUrl(input) ==
    Eager(trim(input), LAMBDA s :
    Eager(indexOf(s, ":"), LAMBDA colon :
        IF colon <= 1 \/ ~(s[1] \in Range(UpperAlpha) \cup Range(LowerAlpha))
           \/ \E i \in 1..(colon - 1) : ~IsSchemeChar(s[i])
        THEN ParseFailed
        ELSE Eager2(toLowerCase(SubSeq(s, 1, colon - 1)), SubSeq(s, colon + 1, Len(s)),
                    ParseAfterScheme)))

\* URL.prototype.toString (href)
UrlToString(u) ==
    u.protocol \o (IF u.hostname # <<>> THEN <<"/", "/">> \o u.hostname ELSE <<>>)
      \o u.pathname \o u.search \o (IF u.hash # <<>> THEN <<"#">> \o u.hash ELSE <<>>)

\* the search getter: empty for a query that is empty
UrlSearch(u) == IF Len(u.search) <= 1 THEN <<>> ELSE u.search

---------------------------------------------------------------------------
(* URL Normalizer/Filter *)

ASSET_EXTENSIONS ==
    {<<".", "c", "s", "s">>, <<".", "j", "s">>, <<".", "m", "j", "s">>, <<".", "m", "a", "p">>, <<".", "p", "n", "g">>, <<".", "j", "p", "g">>, <<".", "j", "p", "e", "g">>, <<".", "g", "i", "f">>,
     <<".", "s", "v", "g">>, <<".", "w", "e", "b", "p">>, <<".", "i", "c", "o">>, <<".", "p", "d", "f">>, <<".", "z", "i", "p">>, <<".", "t", "a", "r">>, <<".", "g", "z">>, <<".", "m", "p", "4">>,
     <<".", "w", "e", "b", "m">>, <<".", "m", "p", "3">>, <<".", "w", "a", "v">>, <<".", "x", "m", "l">>, <<".", "j", "s", "o", "n">>, <<".", "t", "x", "t">>}

isHttpProtocol(url) == url.protocol = <<"h", "t", "t", "p", ":">> \/ url.protocol = <<"h", "t", "t", "p", "s", ":">>

isHtmlLikePathNoLowercase(pathname) ==
    Eager(lastIndexOf(pathname, "."), LAMBDA lastDot :
        IF lastDot <= lastIndexOf(pathname, "/") THEN TRUE
        ELSE SubSeq(pathname, lastDot, Len(pathname)) \notin ASSET_EXTENSIONS)

isHtmlLikePath(pathname) ==
    Eager(lastIndexOf(pathname, "."), LAMBDA lastDot :
        IF lastDot <= lastIndexOf(pathname, "/") THEN TRUE
        ELSE toLowerCase(SubSeq(pathname, lastDot, Len(pathname))) \notin ASSET_EXTENSIONS)

\* null is modelled by Undefined
normalizeUrl(input) ==
    Eager(ParseUrl(input), LAMBDA parsed :
        IF ~parsed.ok THEN Undefined
        ELSE UrlToString([parsed EXCEPT !.hash = <<>>]))

\* Set.prototype.add on an insertion-ordered set
SetAdd(seq, x) == Eager2(seq, x, LAMBDA s, v : IF v \in Range(s) THEN s ELSE Append(s, v))

\* the body of the loop with every URL kept as it was mapped
keptKeepFragment(originHost, mapped, deduped) ==
    Eager(ParseUrl(mapped), LAMBDA parsed :
        IF /\ parsed.ok
           /\ isHttpProtocol(parsed)
           /\ toLowerCase(parsed.hostname) = originHost
           /\ isHtmlLikePath(parsed.pathname)
        THEN SetAdd(deduped, UrlToString(parsed)) ELSE deduped)

\* lines 178-192: the body of the loop for one mapped URL
kept(originHost, mapped, deduped) ==
    Eager(normalizeUrl(mapped), LAMBDA normalized :
        IF normalized = Undefined THEN deduped
        ELSE Eager(ParseUrl(normalized), LAMBDA parsed :
                IF /\ isHttpProtocol(parsed)
                   /\ toLowerCase(parsed.hostname) = originHost
                   /\ isHtmlLikePath(parsed.pathname)
                THEN SetAdd(deduped, UrlToString(parsed)) ELSE deduped))

RECURSIVE filterLoop(_, _, _)
filterLoop(originHost, mappedUrls, deduped) ==
    IF mappedUrls = <<>> THEN deduped
    ELSE Eager(kept(originHost, Head(mappedUrls), deduped), LAMBDA next :
            filterLoop(originHost, Tail(mappedUrls), next))

\* Threw where new URL(startUrl) throws
filterMappedUrls(startUrl, mappedUrls) ==
    Eager(ParseUrl(startUrl), LAMBDA start :
        IF ~start.ok THEN Threw
        ELSE Eager(toLowerCase(start.hostname), LAMBDA originHost :
                Returned(filterLoop(originHost, mappedUrls, <<>>))))
---------------------------------------------------------------------------
(* Identity Resolver: normalisation and identity keys *)

OrEmpty(value) == IF value = Undefined THEN <<>> ELSE value

\* route.ts normalizeIdentityToken
normalizeIdentityToken(value) ==
    trim(collapseWhitespace(replaceNonWordNonSpace(normalizeNFKD(toLowerCase(trim(OrEmpty(value)))))))

\* a key on the name alone, as toSpeakerRows builds it
speakerAppearanceKeyNameOnly(row) ==
    LET profile == IF row.profileUrl = Undefined THEN <<>> ELSE toLowerCase(trim(row.profileUrl))
    IN  IF profile # <<>> THEN <<"p", "r", "o", "f", "i", "l", "e", ":", ":">> \o profile
        ELSE <<"n", "a", "m", "e", "o", "r", "g", ":", ":">> \o normalizeIdentityToken(row.name) \o <<":", ":">>

\* route.ts speakerAppearanceKey
speakerAppearanceKey(row) ==
    LET profile == IF row.profileUrl = Undefined THEN <<>> ELSE toLowerCase(trim(row.profileUrl))
    IN  IF profile # <<>> THEN <<"p", "r", "o", "f", "i", "l", "e", ":", ":">> \o profile
        ELSE <<"n", "a", "m", "e", "o", "r", "g", ":", ":">> \o normalizeIdentityToken(row.name) \o <<":", ":">>
               \o normalizeIdentityToken(row.organization)

\* speaker-api-strategy.ts appearanceKey
appearanceKey(candidate) ==
    LET profile == IF candidate.profileUrl = Undefined THEN <<>>
                   ELSE toLowerCase(trim(candidate.profileUrl))
        normalizedName ==
            trim(collapseWhitespace(replaceNonWordNonSpace(normalizeNFKD(
                toLowerCase(OrEmpty(candidate.name))))))
        normalizedOrg ==
            trim(collapseWhitespace(replaceNonWordNonSpace(normalizeNFKD(
                toLowerCase(OrEmpty(candidate.organization))))))
    IN  IF profile # <<>> THEN <<"p", "r", "o", "f", "i", "l", "e", ":", ":">> \o profile
        ELSE <<"n", "a", "m", "e", "o", "r", "g", ":", ":">> \o normalizedName \o <<":", ":">> \o normalizedOrg

\* events-repository normalizeTextValue: the trimmed value, undefined when empty
normalizeTextValue(value) ==
    Eager(IF value = Undefined THEN <<>> ELSE trim(value), LAMBDA trimmed :
        IF trimmed = <<>> THEN Undefined ELSE trimmed)

\* events-repository normalizeIdentityValue
normalizeIdentityValue(value) ==
    trim(collapseWhitespace(replaceNonWordNonSpace(normalizeNFKD(
        toLowerCase(OrEmpty(normalizeTextValue(value)))))))

\* events-repository normalizeUrlValue
normalizeUrlValue(value) ==
    Eager(normalizeTextValue(value), LAMBDA trimmed :
        IF trimmed = Undefined THEN Undefined
        ELSE Eager(ParseUrl(trimmed), LAMBDA parsed :
                IF ~parsed.ok THEN Undefined
                ELSE UrlToString([parsed EXCEPT !.hash = <<>>])))

\* the name-and-organization part of the persistence lookup key
nameOrgLookupKey(normalizedName, orgNormalized) ==
    normalizedName \o <<":", ":">> \o orgNormalized

\* events-repository lines 652-654: the lookupKey of the normalized values
lookupKeyOf(normalizedProfileUrl, normalizedName, orgNormalized) ==
    IF normalizedProfileUrl # Undefined
    THEN <<"p", "r", "o", "f", "i", "l", "e", ":", ":">> \o normalizedProfileUrl
    ELSE <<"n", "a", "m", "e", "o", "r", "g", ":", ":">> \o nameOrgLookupKey(normalizedName, orgNormalized)

\* persistExtractedConferenceDataInDb: the lookupKey of one appearance
persistLookupKey(appearance) ==
    Eager(normalizeUrlValue(appearance.profileUrl), LAMBDA normalizedProfileUrl :
        lookupKeyOf(normalizedProfileUrl, normalizeIdentityValue(appearance.name),
                    normalizeIdentityValue(appearance.organization)))
---------------------------------------------------------------------------
(* Persistence Gateway: the tables of schema.sql and                       *)
(* persistExtractedConferenceDataInDb.  A row id is the row's position in  *)
(* its table; a null column is Undefined (0 for organization_id).          *)

EmptyDb == [sessions |-> <<>>, organizations |-> <<>>, speakers |-> <<>>,
            session_speakers |-> <<>>]

DbIdle == db = EmptyDb /\ persistCalls = <<>>

\* sessions keyed by normalized URL, the last title kept
RECURSIVE normalizedSessionsMapOfLastWins(_, _)
normalizedSessionsMapOfLastWins(sessions, acc) ==
    IF sessions = <<>> THEN acc
    ELSE
      LET normalizedUrl == normalizeUrlValue(Head(sessions).url)
          normalizedTitle == normalizeTextValue(Head(sessions).title)
      IN  Eager(IF normalizedUrl = Undefined \/ normalizedTitle = Undefined THEN acc
                ELSE MapSet(acc, normalizedUrl,
                            [url |-> normalizedUrl, title |-> normalizedTitle]),
                LAMBDA next : normalizedSessionsMapOfLastWins(Tail(sessions), next))

\* lines 523-537: sessions keyed by normalized URL, the first title kept
RECURSIVE normalizedSessionsMapOf(_, _)
normalizedSessionsMapOf(sessions, acc) ==
    IF sessions = <<>> THEN acc
    ELSE
      LET normalizedUrl == normalizeUrlValue(Head(sessions).url)
          normalizedTitle == normalizeTextValue(Head(sessions).title)
      IN  Eager(IF normalizedUrl = Undefined \/ normalizedTitle = Undefined THEN acc
                ELSE MapSetIfAbsent(acc, normalizedUrl,
                                    [url |-> normalizedUrl, title |-> normalizedTitle]),
                LAMBDA next : normalizedSessionsMapOf(Tail(sessions), next))

\* lines 541-551: upsert on (event_id, url); a conflicting row takes the new title
RECURSIVE upsertSessions(_, _, _)
upsertSessions(table, eventId, rows) ==
    IF rows = <<>> THEN table
    ELSE
      LET r == Head(rows)
          hit == {i \in 1..Len(table) : table[i].event_id = eventId /\ table[i].url = r.url}
      IN  Eager(IF hit # {}
                THEN [i \in 1..Len(table) |->
                        IF i \in hit THEN [table[i] EXCEPT !.title = r.title] ELSE table[i]]
                ELSE Append(table, [id |-> Len(table) + 1, event_id |-> eventId,
                                    url |-> r.url, title |-> r.title]),
                LAMBDA next : upsertSessions(next, eventId, Tail(rows)))

\* line 559: url -> id of the rows the upsert returned
sessionIdByUrlOf(table, eventId, rows) ==
    [i \in 1..Len(rows) |->
        [key |-> rows[i].url,
         value |-> (CHOOSE j \in 1..Len(table) :
                      table[j].event_id = eventId /\ table[j].url = rows[i].url)]]

\* lines 561-568: normalized organization name -> first raw name seen
RECURSIVE normalizedOrgByNameOf(_, _)
normalizedOrgByNameOf(appearances, acc) ==
    IF appearances = <<>> THEN acc
    ELSE
      LET normalizedOrg == normalizeIdentityValue(Head(appearances).organization)
          rawOrg == normalizeTextValue(Head(appearances).organization)
      IN  Eager(IF normalizedOrg # <<>> /\ rawOrg # Undefined
                THEN MapSetIfAbsent(acc, normalizedOrg, rawOrg) ELSE acc,
                LAMBDA next : normalizedOrgByNameOf(Tail(appearances), next))

\* an insert that renames the row of a name already there
RECURSIVE insertMissingOrganizationsRenames(_, _)
insertMissingOrganizationsRenames(table, orgByName) ==
    IF orgByName = <<>> THEN table
    ELSE
      LET e == Head(orgByName)
      IN  Eager(IF \E i \in 1..Len(table) : table[i].normalized_name = e.key
                THEN [i \in 1..Len(table) |->
                        IF table[i].normalized_name = e.key
                        THEN [table[i] EXCEPT !.name = e.value] ELSE table[i]]
                ELSE Append(table, [id |-> Len(table) + 1, name |-> e.value,
                                    normalized_name |-> e.key]),
                LAMBDA next : insertMissingOrganizationsRenames(next, Tail(orgByName)))

\* lines 570-603: the organizations table after the missing names are inserted
RECURSIVE insertMissingOrganizations(_, _)
insertMissingOrganizations(table, orgByName) ==
    IF orgByName = <<>> THEN table
    ELSE
      LET e == Head(orgByName)
      IN  Eager(IF \E i \in 1..Len(table) : table[i].normalized_name = e.key THEN table
                ELSE Append(table, [id |-> Len(table) + 1, name |-> e.value,
                                    normalized_name |-> e.key]),
                LAMBDA next : insertMissingOrganizations(next, Tail(orgByName)))

\* organizationsByNormalized.get(orgNormalized)?.id ?? null, lines 646-650
organizationIdOf(organizations, orgByName, orgNormalized) ==
    IF orgNormalized # <<>> /\ MapHas(orgByName, orgNormalized)
    THEN (CHOOSE i \in 1..Len(organizations) :
            organizations[i].normalized_name = orgNormalized)
    ELSE 0

\* a join that returns no organization
joinedOrgNormalizedNone(organizations, speaker) == Undefined

\* the joined organizations(normalized_name) of a speaker row, line 619
joinedOrgNormalized(organizations, speaker) ==
    IF speaker.organization_id = 0 THEN Undefined
    ELSE organizations[speaker.organization_id].normalized_name

existingFallbackKeyNameOnly(speaker, orgNormalized) ==
    nameOrgLookupKey(speaker.normalized_name, <<>>)

\* line 622: the name-and-organization key of a speaker row read back
existingFallbackKey(speaker, orgNormalized) ==
    nameOrgLookupKey(speaker.normalized_name, OrEmpty(orgNormalized))

\* lines 613-624: the two lookup maps over the event's speaker rows
RECURSIVE loadExistingSpeakers(_, _, _)
loadExistingSpeakers(existing, organizations, maps) ==
    IF existing = <<>> THEN maps
    ELSE
      LET speaker == Head(existing)
          p == IF speaker.profile_url # Undefined
               THEN MapSet(maps.byProfileUrl, speaker.profile_url, speaker.id)
               ELSE maps.byProfileUrl
          n == MapSet(maps.byNameOrg,
                      existingFallbackKey(speaker, joinedOrgNormalized(organizations, speaker)),
                      speaker.id)
      IN  Eager([byProfileUrl |-> p, byNameOrg |-> n],
                LAMBDA next : loadExistingSpeakers(Tail(existing), organizations, next))

\* lines 630-654: the normalized values of one appearance
normalizedAppearance(appearance) ==
    [sessionUrl |-> normalizeUrlValue(appearance.sessionUrl),
     canonicalName |-> normalizeTextValue(appearance.name),
     normalizedName |-> normalizeIdentityValue(appearance.name),
     orgNormalized |-> normalizeIdentityValue(appearance.organization),
     profileUrl |-> normalizeUrlValue(appearance.profileUrl),
     title |-> normalizeTextValue(appearance.title),
     role |-> normalizeTextValue(appearance.role)]

\* lines 656-690: the speaker id of an appearance not seen in this call: the
\* existing row matched by profile URL or else by name and organization, or
\* a row inserted (refused on the unique (event_id, profile_url))
resolveSpeaker(a, lookupKey, link, eventId, organizationId, st) ==
    LET byProfile == a.profileUrl # Undefined
        fallbackKey == nameOrgLookupKey(a.normalizedName, a.orgNormalized)
        matched == IF byProfile THEN MapHas(st.byProfileUrl, a.profileUrl)
                   ELSE MapHas(st.byNameOrg, fallbackKey)
        matchedId == IF byProfile THEN MapGet(st.byProfileUrl, a.profileUrl)
                     ELSE MapGet(st.byNameOrg, fallbackKey)
        newId == Len(st.speakers) + 1
        conflict == /\ byProfile
                    /\ \E i \in 1..Len(st.speakers) :
                          /\ st.speakers[i].event_id = eventId
                          /\ st.speakers[i].profile_url = a.profileUrl
    IN  IF matched
        THEN [st EXCEPT !.speakerIdByIdentity = MapSet(@, lookupKey, matchedId),
                        !.rows = Append(@, [link EXCEPT !.speakerId = matchedId])]
        ELSE IF conflict THEN [st EXCEPT !.threw = TRUE]
        ELSE [st EXCEPT
                !.speakers = Append(@,
                    [id |-> newId, event_id |-> eventId, canonical_name |-> a.canonicalName,
                     normalized_name |-> a.normalizedName, organization_id |-> organizationId,
                     title |-> a.title, profile_url |-> a.profileUrl]),
                !.byProfileUrl = IF byProfile THEN MapSet(@, a.profileUrl, newId) ELSE @,
                !.byNameOrg = MapSet(@, fallbackKey, newId),
                !.speakerIdByIdentity = MapSet(@, lookupKey, newId),
                !.rows = Append(@, [link EXCEPT !.speakerId = newId])]

\* a loop body that links an appearance to session 0 when its sessionUrl does
\* not resolve
persistAppearanceUnresolvedKept(appearance, eventId, sessionIdByUrl, organizations, orgByName, st) ==
    Eager(normalizedAppearance(appearance), LAMBDA a :
        IF \/ a.canonicalName = Undefined
           \/ a.normalizedName = <<>>
        THEN st
        ELSE Eager2(lookupKeyOf(a.profileUrl, a.normalizedName, a.orgNormalized),
                    [sessionId |-> IF a.sessionUrl # Undefined
                                      /\ MapHas(sessionIdByUrl, a.sessionUrl)
                                   THEN MapGet(sessionIdByUrl, a.sessionUrl) ELSE 0,
                     speakerId |-> 0, role |-> a.role],
                    LAMBDA lookupKey, link :
                IF MapHas(st.speakerIdByIdentity, lookupKey)
                THEN [st EXCEPT !.rows = Append(@,
                        [link EXCEPT !.speakerId = MapGet(st.speakerIdByIdentity, lookupKey)])]
                ELSE resolveSpeaker(a, lookupKey, link, eventId,
                        organizationIdOf(organizations, orgByName, a.orgNormalized), st)))

\* lines 629-696: the body of the loop for one appearance; st carries the
\* speakers table, the lookup maps, speakerIdByIdentity and rowsForSessionLink
persistAppearance(appearance, eventId, sessionIdByUrl, organizations, orgByName, st) ==
    Eager(normalizedAppearance(appearance), LAMBDA a :
        IF \/ a.sessionUrl = Undefined
           \/ ~MapHas(sessionIdByUrl, a.sessionUrl)
           \/ a.canonicalName = Undefined
           \/ a.normalizedName = <<>>
        THEN st
        ELSE Eager2(lookupKeyOf(a.profileUrl, a.normalizedName, a.orgNormalized),
                    [sessionId |-> MapGet(sessionIdByUrl, a.sessionUrl),
                     speakerId |-> 0, role |-> a.role],
                    LAMBDA lookupKey, link :
                IF MapHas(st.speakerIdByIdentity, lookupKey)
                THEN [st EXCEPT !.rows = Append(@,
                        [link EXCEPT !.speakerId = MapGet(st.speakerIdByIdentity, lookupKey)])]
                ELSE resolveSpeaker(a, lookupKey, link, eventId,
                        organizationIdOf(organizations, orgByName, a.orgNormalized), st)))

RECURSIVE speakerLoop(_, _, _, _, _, _)
speakerLoop(appearances, eventId, sessionIdByUrl, organizations, orgByName, st) ==
    IF appearances = <<>> \/ st.threw THEN st
    ELSE Eager(persistAppearance(Head(appearances), eventId, sessionIdByUrl, organizations,
                                 orgByName, st),
               LAMBDA next : speakerLoop(Tail(appearances), eventId, sessionIdByUrl,
                                         organizations, orgByName, next))

\* lines 698-708: links keyed by (sessionId, speakerId), the first role kept
RECURSIVE uniqueLinksOf(_, _)
uniqueLinksOf(rows, acc) ==
    IF rows = <<>> THEN acc
    ELSE Eager(MapSetIfAbsent(acc, <<Head(rows).sessionId, Head(rows).speakerId>>,
                              [session_id |-> Head(rows).sessionId,
                               speaker_id |-> Head(rows).speakerId,
                               role |-> Head(rows).role]),
               LAMBDA next : uniqueLinksOf(Tail(rows), next))

\* lines 710-717: upsert on (session_id, speaker_id); a conflicting row takes the new role
RECURSIVE upsertLinks(_, _)
upsertLinks(table, links) ==
    IF links = <<>> THEN table
    ELSE
      LET l == Head(links)
          hit == {i \in 1..Len(table) :
                    table[i].session_id = l.session_id /\ table[i].speaker_id = l.speaker_id}
      IN  Eager(IF hit # {}
                THEN [i \in 1..Len(table) |-> IF i \in hit THEN l ELSE table[i]]
                ELSE Append(table, l),
                LAMBDA next : upsertLinks(next, Tail(links)))

\* lines 719-731: the counts returned
persistResult(d, eventId, sessionsTable, organizations, normalizedSessions, st) ==
    [db |-> [sessions |-> sessionsTable, organizations |-> organizations,
             speakers |-> st.speakers,
             session_speakers |->
                IF st.threw THEN d.session_speakers
                ELSE upsertLinks(d.session_speakers, MapValues(uniqueLinksOf(st.rows, <<>>)))],
     threw |-> st.threw,
     speakerIdByIdentity |-> st.speakerIdByIdentity,
     rowsForSessionLink |-> st.rows,
     sessionIdByUrl |-> sessionIdByUrlOf(sessionsTable, eventId, normalizedSessions),
     sessionsFound |-> Len(normalizedSessions),
     speakerAppearancesFound |-> Len(st.rows),
     uniqueSpeakersFound |->
        Cardinality({i \in 1..Len(st.speakers) : st.speakers[i].event_id = eventId})]

\* persistExtractedConferenceDataInDb: the tables after the call and what it
\* returns (threw: the speaker insert was refused)
persistExtractedConferenceDataInDb(d, eventId, sessions, speakerAppearances) ==
    Eager(MapValues(normalizedSessionsMapOf(sessions, <<>>)), LAMBDA normalizedSessions :
    Eager(upsertSessions(d.sessions, eventId, normalizedSessions), LAMBDA sessionsTable :
    Eager(sessionIdByUrlOf(sessionsTable, eventId, normalizedSessions), LAMBDA sessionIdByUrl :
    Eager(normalizedOrgByNameOf(speakerAppearances, <<>>), LAMBDA orgByName :
    Eager(insertMissingOrganizations(d.organizations, orgByName), LAMBDA organizations :
    Eager(loadExistingSpeakers(SelectSeq(d.speakers, LAMBDA row : row.event_id = eventId),
                               organizations, [byProfileUrl |-> <<>>, byNameOrg |-> <<>>]),
          LAMBDA maps :
    Eager(speakerLoop(speakerAppearances, eventId, sessionIdByUrl, organizations, orgByName,
                      [speakers |-> d.speakers, byProfileUrl |-> maps.byProfileUrl,
                       byNameOrg |-> maps.byNameOrg, speakerIdByIdentity |-> <<>>,
                       rows |-> <<>>, threw |-> FALSE]),
          LAMBDA st :
    persistResult(d, eventId, sessionsTable, organizations, normalizedSessions, st))))))))

---------------------------------------------------------------------------
(* Orchestrator: constants, classification, targeting, job row *)

MAX_SESSION_PAGES == 20
MAX_SPEAKER_PASSES == 8
MAX_SPEAKER_PASS_FAILURES == 2
SPEAKER_NO_GROWTH_STOP_PASSES == 2
MIN_PASSES_BEFORE_PLATEAU_STOP == 4
SPEAKER_PATH_KEYWORDS == {<<"s", "p", "e", "a", "k", "e", "r">>, <<"s", "p", "e", "a", "k", "e", "r", "s">>, <<"p", "r", "e", "s", "e", "n", "t", "e", "r">>, <<"p", "r", "e", "s", "e", "n", "t", "e", "r", "s">>, <<"f", "a", "c", "u", "l", "t", "y">>}
SESSION_PATH_KEYWORDS == {<<"s", "e", "s", "s", "i", "o", "n">>, <<"s", "e", "s", "s", "i", "o", "n", "s">>, <<"a", "g", "e", "n", "d", "a">>, <<"s", "c", "h", "e", "d", "u", "l", "e">>, <<"p", "r", "o", "g", "r", "a", "m">>}
SPEAKER_SIGNAL_TOKENS == {<<"s", "p", "e", "a", "k", "e", "r">>, <<"s", "p", "e", "a", "k", "e", "r", "s">>, <<"p", "r", "e", "s", "e", "n", "t", "e", "r">>, <<"p", "r", "e", "s", "e", "n", "t", "e", "r", "s">>, <<"f", "a", "c", "u", "l", "t", "y">>}
SESSION_URL_KEYWORDS ==
    {<<"a", "g", "e", "n", "d", "a">>, <<"s", "c", "h", "e", "d", "u", "l", "e">>, <<"s", "e", "s", "s", "i", "o", "n">>, <<"s", "e", "s", "s", "i", "o", "n", "s">>, <<"p", "r", "o", "g", "r", "a", "m">>, <<"s", "p", "e", "a", "k", "e", "r">>, <<"s", "p", "e", "a", "k", "e", "r", "s">>}

\* the number of log lines a job row keeps: logLines.slice(-20)
LOG_TAIL == 20

\* null, where an error text or a result is optional
Null == "<null>"

\* the messages of the errors the run raises or receives
CancelledMessage == "Extraction cancelled."
EmptyResultsMessage == "All extraction strategies returned empty results."
AbortErrorMessage == "This operation was aborted"
ScrapeFailedMessage == "Firecrawl scrape failed."
MapFailedMessage == "Firecrawl map request failed."
InvalidUrlMessage == "Invalid URL"
InvalidJsonMessage == "Unexpected end of JSON input"
DbErrorMessage == "database error"
BrowserErrorMessage == "browser error"

\* a log line: the text of its template, then the values put in
Line(template, args) == <<template>> \o args

\* keywords.some((keyword) => candidate.includes(keyword))
someIncludes(candidate, keywords) ==
    Eager(candidate, LAMBDA c : \E keyword \in keywords : includes(c, keyword))

\* `${parsed.pathname}${parsed.search}`.toLowerCase()
pathAndSearch(parsed) == toLowerCase(parsed.pathname \o UrlSearch(parsed))

\* a classification that lets a speaker-ish keyword win over a session-ish one
pickExtractionModeSpeakerWins(url) ==
    Eager(ParseUrl(url), LAMBDA parsed :
        IF ~parsed.ok THEN [mode |-> "session", isAmbiguous |-> TRUE]
        ELSE Eager(pathAndSearch(parsed), LAMBDA candidate :
                Eager2(someIncludes(candidate, SPEAKER_PATH_KEYWORDS),
                       someIncludes(candidate, SESSION_PATH_KEYWORDS),
                       LAMBDA hasSpeakerKeyword, hasSessionKeyword :
                    IF hasSpeakerKeyword
                    THEN [mode |-> "speakerDirectory", isAmbiguous |-> FALSE]
                    ELSE IF hasSessionKeyword
                    THEN [mode |-> "session", isAmbiguous |-> FALSE]
                    ELSE [mode |-> "session", isAmbiguous |-> TRUE])))

\* route.ts pickExtractionMode
pickExtractionMode(url) ==
    Eager(ParseUrl(url), LAMBDA parsed :
        IF ~parsed.ok THEN [mode |-> "session", isAmbiguous |-> TRUE]
        ELSE Eager(pathAndSearch(parsed), LAMBDA candidate :
                Eager2(someIncludes(candidate, SPEAKER_PATH_KEYWORDS),
                       someIncludes(candidate, SESSION_PATH_KEYWORDS),
                       LAMBDA hasSpeakerKeyword, hasSessionKeyword :
                    IF hasSpeakerKeyword /\ ~hasSessionKeyword
                    THEN [mode |-> "speakerDirectory", isAmbiguous |-> FALSE]
                    ELSE IF hasSessionKeyword /\ ~hasSpeakerKeyword
                    THEN [mode |-> "session", isAmbiguous |-> FALSE]
                    ELSE [mode |-> "session", isAmbiguous |-> TRUE])))

\* filterLikelySessionUrls: the loop from one URL on
RECURSIVE likelyLoop(_, _, _)
likelyLoop(urls, maxPages, selected) ==
    IF urls = <<>> THEN selected
    ELSE Eager(ParseUrl(Head(urls)), LAMBDA parsed :
            IF ~parsed.ok THEN likelyLoop(Tail(urls), maxPages, selected)
            ELSE Eager(IF someIncludes(pathAndSearch(parsed), SESSION_URL_KEYWORDS)
                       THEN Append(selected, UrlToString(parsed)) ELSE selected,
                       LAMBDA next :
                    IF Len(next) >= maxPages THEN next
                    ELSE likelyLoop(Tail(urls), maxPages, next)))

filterLikelySessionUrls(urls, maxPages) == likelyLoop(urls, maxPages, <<>>)

\* filteredUrls.slice(0, n)
sliceFirst(s, n) == Eager(s, LAMBDA v : SubSeq(v, 1, IF Len(v) < n THEN Len(v) ELSE n))

\* a slice that keeps the first n lines
sliceLastKeepsHead(s, n) ==
    Eager(s, LAMBDA v : SubSeq(v, 1, IF Len(v) > n THEN n ELSE Len(v)))

\* logLines.slice(-n)
sliceLast(s, n) ==
    Eager(s, LAMBDA v : SubSeq(v, IF Len(v) > n THEN Len(v) - n + 1 ELSE 1, Len(v)))

\* the selection without its fall back to the first filtered pages
targetedSessionUrlsOfNoFallback(filteredUrls) ==
    filterLikelySessionUrls(filteredUrls, MAX_SESSION_PAGES)

\* route.ts lines 300-308
targetedSessionUrlsOf(filteredUrls) ==
    Eager(filterLikelySessionUrls(filteredUrls, MAX_SESSION_PAGES), LAMBDA likelySessionUrls :
        IF Len(likelySessionUrls) > 0 THEN likelySessionUrls
        ELSE sliceFirst(filteredUrls, MAX_SESSION_PAGES))

\* mapEventUrlsWithFirecrawl after the response: Threw where filterMappedUrls throws
mappedOf(startUrl, links) ==
    Eager(filterMappedUrls(startUrl, links), LAMBDA filtered :
        IF filtered.state = "threw" THEN Threw
        ELSE Returned([totalMappedUrls |-> Len(links), mappedUrls |-> links,
                       filteredUrls |-> filtered.value]))

(* The job row *)

Counters(total, discovered, pages, sessions, appearances, speakers) ==
    [totalUrlsMapped |-> total, urlsDiscovered |-> discovered, pagesProcessed |-> pages,
     sessionsFound |-> sessions, speakerAppearancesFound |-> appearances,
     uniqueSpeakersFound |-> speakers]

\* no row yet
NoJob ==
    [status |-> "none", counters |-> Counters(0, 0, 0, 0, 0, 0), log |-> <<>>,
     mappedUrls |-> <<>>, filteredUrls |-> <<>>, processedUrls |-> <<>>, error |-> Null]

\* createJobForEventInDb of defaultJob("queued") with logLines.slice(-20)
queuedJobRow(lines) ==
    [status |-> "queued", counters |-> Counters(0, 0, 0, 0, 0, 0),
     log |-> sliceLast(lines, LOG_TAIL),
     mappedUrls |-> <<>>, filteredUrls |-> <<>>, processedUrls |-> <<>>, error |-> Null]

\* updateJobByIdInDb: the row with the fields of the patch written
updateJobByIdInDb(row, patch) ==
    [status |-> IF "status" \in DOMAIN patch THEN patch.status ELSE row.status,
     counters |-> IF "counters" \in DOMAIN patch THEN patch.counters ELSE row.counters,
     log |-> IF "logLines" \in DOMAIN patch THEN sliceLast(patch.logLines, LOG_TAIL)
             ELSE row.log,
     mappedUrls |-> IF "mappedUrls" \in DOMAIN patch THEN patch.mappedUrls
                    ELSE row.mappedUrls,
     filteredUrls |-> IF "filteredUrls" \in DOMAIN patch THEN patch.filteredUrls
                      ELSE row.filteredUrls,
     processedUrls |-> IF "processedUrls" \in DOMAIN patch THEN patch.processedUrls
                       ELSE row.processedUrls,
     error |-> IF "error" \in DOMAIN patch THEN patch.error ELSE row.error]

\* new Set(extractedSessions.map((session) => session.url)).size
distinctSessionUrls(sessions) == Cardinality({sessions[i].url : i \in 1..Len(sessions)})

\* route.ts lines 291-295
crawlingPatch(lines) ==
    [status |-> "crawling", logLines |-> lines, counters |-> Counters(0, 0, 0, 0, 0, 0)]

\* route.ts lines 314-325
extractingPatch(mapped, lines) ==
    [status |-> "extracting",
     counters |-> Counters(mapped.totalMappedUrls, Len(mapped.filteredUrls), 0, 0, 0, 0),
     mappedUrls |-> mapped.mappedUrls, filteredUrls |-> mapped.filteredUrls,
     processedUrls |-> <<>>, logLines |-> lines, error |-> Null]

\* counters that count every page attempted as processed
progressCountersCountsAttempts(r) ==
    Counters(r.mapped.totalMappedUrls, Len(r.mapped.filteredUrls),
             Len(r.processedUrls) + Len(r.scrapeErrors),
             distinctSessionUrls(r.extractedSessions), Len(r.extractedAppearances), 0)

\* the counters of the snapshots taken during and after the page loop
progressCounters(r) ==
    Counters(r.mapped.totalMappedUrls, Len(r.mapped.filteredUrls), Len(r.processedUrls),
             distinctSessionUrls(r.extractedSessions), Len(r.extractedAppearances), 0)

pagePatchBackToCrawling(r, lines) ==
    [status |-> "crawling", counters |-> progressCounters(r),
     processedUrls |-> r.processedUrls, logLines |-> lines]

\* route.ts lines 441-452
pagePatch(r, lines) ==
    [status |-> "extracting", counters |-> progressCounters(r),
     processedUrls |-> r.processedUrls, logLines |-> lines]

\* route.ts lines 460-471
savingPatch(r, lines) ==
    [status |-> "saving", counters |-> progressCounters(r),
     processedUrls |-> r.processedUrls, logLines |-> lines]

\* route.ts lines 501-514
completePatch(r, lines) ==
    [status |-> "complete",
     counters |-> Counters(r.mapped.totalMappedUrls, Len(r.mapped.filteredUrls),
                           Len(r.processedUrls), r.persisted.sessionsFound,
                           r.persisted.speakerAppearancesFound,
                           r.persisted.uniqueSpeakersFound),
     processedUrls |-> r.processedUrls, logLines |-> lines, error |-> Null]

failedPatchResetsProgress(lines, message) ==
    [status |-> "failed", logLines |-> lines, error |-> message,
     counters |-> Counters(0, 0, 0, 0, 0, 0), processedUrls |-> <<>>]

\* route.ts lines 537-541
failedPatch(lines, message) ==
    [status |-> "failed", logLines |-> lines, error |-> message]

(* What a scrape returns *)

\* firecrawl normalizeTextValue is events-repository's on strings
firstDefined(a, b, c) == IF a # Undefined THEN a ELSE IF b # Undefined THEN b ELSE c

\* the appearance row of one scraped speaker, lines 589-600 and 627-637
speakerRow(speaker, sessionUrl) ==
    [name |-> normalizeTextValue(speaker.name),
     organization |-> normalizeTextValue(speaker.organization),
     title |-> normalizeTextValue(speaker.title),
     profileUrl |-> firstDefined(normalizeTextValue(speaker.profileWebsiteUrl),
                                 normalizeTextValue(speaker.websiteUrl),
                                 normalizeTextValue(speaker.profileUrl)),
     role |-> normalizeTextValue(speaker.role),
     sessionUrl |-> sessionUrl]

\* the rows of the speakers that have a name
speakerRows(speakers, sessionUrl) ==
    SelectSeq([i \in 1..Len(speakers) |-> speakerRow(speakers[i], sessionUrl)],
              LAMBDA row : row.name # Undefined)

\* firecrawl toSessionAndAppearances
RECURSIVE toSessionAndAppearances(_, _, _)
toSessionAndAppearances(sessions, pageUrl, acc) ==
    IF sessions = <<>> THEN acc
    ELSE Eager2(normalizeTextValue(Head(sessions).title),
                IF normalizeTextValue(Head(sessions).url) = Undefined THEN pageUrl
                ELSE normalizeTextValue(Head(sessions).url),
                LAMBDA sessionTitle, sessionUrl :
            Eager(IF sessionTitle = Undefined THEN acc
                  ELSE [sessions |-> Append(acc.sessions,
                                            [title |-> sessionTitle, url |-> sessionUrl]),
                        appearances |-> acc.appearances
                                          \o speakerRows(Head(sessions).speakers, sessionUrl)],
                  LAMBDA next : toSessionAndAppearances(Tail(sessions), pageUrl, next)))

\* firecrawl toSpeakerDirectoryRows
toSpeakerDirectoryRows(speakers, pageUrl) ==
    Eager(speakerRows(speakers, pageUrl), LAMBDA appearances :
        [sessions |-> IF appearances = <<>> THEN <<>>
                      ELSE <<[title |-> <<"S", "p", "e", "a", "k", "e", "r", " ", "D", "i", "r", "e", "c", "t", "o", "r", "y">>, url |-> pageUrl]>>,
         appearances |-> appearances])

\* firecrawl normalizeStructuredOutput
normalizeStructuredOutput(extractionMode, extractedJson, pageUrl) ==
    IF extractionMode = "speakerDirectory"
    THEN toSpeakerDirectoryRows(extractedJson.speakers, pageUrl)
    ELSE toSessionAndAppearances(extractedJson.sessions, pageUrl,
                                 [sessions |-> <<>>, appearances |-> <<>>])

\* a ScrapeDebugArtifact: what the run keeps of one scrape attempt
Artifact(url, success, extractionMode, strategy, passIndex, markdown, html, jsonText, error) ==
    [url |-> url, success |-> success, extractionMode |-> extractionMode,
     strategy |-> strategy, passIndex |-> passIndex, markdown |-> markdown,
     html |-> html, jsonText |-> jsonText, error |-> error]

\* scrapeStructuredSessionPage on a response that is ok, lines 700-724
scrapeResult(payload, extractionMode, pageUrl) ==
    Eager(normalizeStructuredOutput(extractionMode, payload, pageUrl), LAMBDA normalized :
        [sessions |-> normalized.sessions, appearances |-> normalized.appearances,
         debugArtifact |-> Artifact(pageUrl, TRUE, extractionMode, "firecrawlFallback", 0,
                                    normalizeTextValue(payload.markdown),
                                    normalizeTextValue(payload.html),
                                    payload.jsonText, Null)])

\* route.ts hasSpeakerSignals
hasSpeakerSignals(artifact) ==
    \/ someIncludes(toLowerCase(OrEmpty(artifact.markdown)), SPEAKER_SIGNAL_TOKENS)
    \/ someIncludes(toLowerCase(OrEmpty(artifact.html)), SPEAKER_SIGNAL_TOKENS)
    \/ someIncludes(toLowerCase(OrEmpty(artifact.jsonText)), SPEAKER_SIGNAL_TOKENS)

\* a strategy's result; null is NullResult
StrategyResult(sessions, appearances, artifacts, stopReason) ==
    [isNull |-> FALSE, sessions |-> sessions, appearances |-> appearances,
     artifacts |-> artifacts, stopReason |-> stopReason]

NullResult ==
    [isNull |-> TRUE, sessions |-> <<>>, appearances |-> <<>>, artifacts |-> <<>>,
     stopReason |-> ""]

---------------------------------------------------------------------------
(* The two strategies: what they compute between two awaits *)

API_SCROLL_PASSES == 6
API_MAX_REPLAY_INDEX == 50
API_STAGNANT_STOP == 2
API_ARTIFACT_LIMIT == 30
DEFAULT_OFFSET_STEP == 20

\* s cut at every code point c
RECURSIVE splitOn(_, _)
splitOn(s, c) ==
    Eager(SplitAt(s, {c}), LAMBDA cut :
        IF cut.from = <<>> THEN <<cut.before>>
        ELSE <<cut.before>> \o splitOn(Tail(cut.from), c))

\* URL.searchParams: the [key, value] pairs of the query, in order
searchParamsOf(parsed) ==
    Eager(UrlSearch(parsed), LAMBDA search :
        IF search = <<>> THEN <<>>
        ELSE Eager(SelectSeq(splitOn(Tail(search), "&"), LAMBDA piece : piece # <<>>),
                   LAMBDA pieces :
                [i \in 1..Len(pieces) |->
                    Eager(SplitAt(pieces[i], {"="}), LAMBDA kv :
                        [key |-> kv.before,
                         value |-> IF kv.from = <<>> THEN <<>> ELSE Tail(kv.from)])]))

\* Number(params.get(key)) || ...: the decimal value, 0 where it is not a number
RECURSIVE digitsValue(_, _)
digitsValue(s, acc) ==
    IF s = <<>> THEN acc
    ELSE IF Head(s) \notin Range(DigitChars) THEN 0
    ELSE digitsValue(Tail(s), 10 * acc + (indexOf(DigitChars, Head(s)) - 1))

numberOfParam(params, key) ==
    IF MapHas(params, key) THEN digitsValue(trim(MapGet(params, key)), 0) ELSE 0

firstNonZero(values) ==
    IF \E i \in 1..Len(values) : values[i] # 0
    THEN values[CHOOSE i \in 1..Len(values) :
                  values[i] # 0 /\ \A j \in 1..(i - 1) : values[j] = 0]
    ELSE DEFAULT_OFFSET_STEP

firstKeyIn(params, keys) ==
    keys[CHOOSE i \in 1..Len(keys) :
            MapHas(params, keys[i]) /\ \A j \in 1..(i - 1) : ~MapHas(params, keys[j])]

NoPagination == [style |-> "none", param |-> <<>>, step |-> 0]

\* speaker-api-strategy.ts detectPagination
detectPagination(urlValue) ==
    Eager(ParseUrl(urlValue), LAMBDA parsed :
        IF ~parsed.ok THEN NoPagination
        ELSE Eager(searchParamsOf(parsed), LAMBDA params :
                IF \E key \in {<<"p", "a", "g", "e">>, <<"p">>} : MapHas(params, key)
                THEN [style |-> "page", param |-> firstKeyIn(params, <<<<"p", "a", "g", "e">>, <<"p">>>>),
                      step |-> 1]
                ELSE IF \E key \in {<<"o", "f", "f", "s", "e", "t">>, <<"s", "t", "a", "r", "t">>, <<"f", "r", "o", "m">>} : MapHas(params, key)
                THEN [style |-> "offset",
                      param |-> firstKeyIn(params, <<<<"o", "f", "f", "s", "e", "t">>, <<"s", "t", "a", "r", "t">>, <<"f", "r", "o", "m">>>>),
                      step |-> firstNonZero(<<numberOfParam(params, <<"l", "i", "m", "i", "t">>),
                                              numberOfParam(params, <<"p", "a", "g", "e", "S", "i", "z", "e">>),
                                              numberOfParam(params, <<"p", "e", "r", "_", "p", "a", "g", "e">>),
                                              numberOfParam(params, <<"s", "i", "z", "e">>)>>)]
                ELSE NoPagination))

\* the replay request of one index: the endpoint with its page or offset parameter set
replayUrl(endpoint, pagination, index) ==
    [endpoint |-> endpoint, param |-> pagination.param,
     value |-> IF pagination.style = "page" THEN index ELSE (index - 1) * pagination.step]

\* captures.reduce(...): the index of the first capture with the most candidates, 0 for none
bestCaptureOf(captures) ==
    Eager(captures, LAMBDA cs :
        IF cs = <<>> THEN 0
        ELSE CHOOSE i \in 1..Len(cs) :
                /\ \A j \in 1..Len(cs) : Len(cs[j].candidates) <= Len(cs[i].candidates)
                /\ \A j \in 1..(i - 1) : Len(cs[j].candidates) < Len(cs[i].candidates))

\* lines 211-222 and 293-305: every candidate whose key is new is stored
RECURSIVE addCandidates(_, _, _)
addCandidates(unique, candidates, pageUrl) ==
    IF candidates = <<>> THEN unique
    ELSE Eager(MapSetIfAbsent(unique, appearanceKey(Head(candidates)),
                    [name |-> Head(candidates).name,
                     organization |-> Head(candidates).organization,
                     title |-> Head(candidates).title,
                     profileUrl |-> Head(candidates).profileUrl,
                     role |-> Head(candidates).role,
                     sessionUrl |-> pageUrl]),
               LAMBDA next : addCandidates(next, Tail(candidates), pageUrl))

\* toArtifacts(captures, pageUrl, "api_probe")
toArtifacts(captures, pageUrl) ==
    Eager(sliceFirst(captures, API_ARTIFACT_LIMIT), LAMBDA kept30 :
        [i \in 1..Len(kept30) |->
            Artifact(pageUrl, TRUE, "speakerDirectory", "apiProbe", 0, Undefined, Undefined,
                     Undefined, Null)])

\* the probe returning a result whatever was captured
apiResultOfNeverNull(a) ==
    StrategyResult(<<[title |-> <<"S", "p", "e", "a", "k", "e", "r", " ", "D", "i", "r", "e", "c", "t", "o", "r", "y">>, url |-> a.pageUrl]>>,
                   MapValues(a.unique), toArtifacts(a.captures, a.pageUrl), a.stopReason)

\* lines 316-328: what runBrowserApiStrategy returns
apiResultOf(a) ==
    Eager(MapValues(a.unique), LAMBDA appearances :
        IF Len(appearances) = 0 THEN NullResult
        ELSE StrategyResult(<<[title |-> <<"S", "p", "e", "a", "k", "e", "r", " ", "D", "i", "r", "e", "c", "t", "o", "r", "y">>, url |-> a.pageUrl]>>,
                            appearances, toArtifacts(a.captures, a.pageUrl), a.stopReason))

\* route.ts lines 184-188: the session rows, the first row of a URL kept
RECURSIVE addSessionRows(_, _)
addSessionRows(sessionRowsByUrl, sessions) ==
    IF sessions = <<>> THEN sessionRowsByUrl
    ELSE Eager(MapSetIfAbsent(sessionRowsByUrl, Head(sessions).url, Head(sessions)),
               LAMBDA next : addSessionRows(next, Tail(sessions)))

\* route.ts lines 191-196: the appearances, the first row of a key kept
RECURSIVE addAppearances(_, _)
addAppearances(uniqueAppearanceMap, appearances) ==
    IF appearances = <<>> THEN uniqueAppearanceMap
    ELSE Eager(MapSetIfAbsent(uniqueAppearanceMap, speakerAppearanceKey(Head(appearances)),
                              Head(appearances)),
               LAMBDA next : addAppearances(next, Tail(appearances)))

\* route.ts lines 242-247: what the pass loop returns
fallbackResultOf(f) ==
    StrategyResult(MapValues(f.sessionRowsByUrl), MapValues(f.uniqueAppearanceMap),
                   f.artifacts, f.stopReason)

\* route.ts lines 118-120
shouldRunSpeakerPassLoop(modeSelection) ==
    \/ modeSelection.mode = "speakerDirectory"
    \/ modeSelection.isAmbiguous /\ modeSelection.mode = "session"

\* route.ts lines 149-150
passModeOf(f) ==
    IF f.shouldEnterSpeakerMode \/ f.passIndex > 1 THEN "speakerDirectory" ELSE "session"

\* the strategies in ascending score order
orderedStrategiesAscending(modeSelection) ==
    Eager2([name |-> "apiProbe",
            score |-> IF modeSelection.mode = "speakerDirectory" THEN 100 ELSE 40],
           [name |-> "firecrawlFallback", score |-> 10],
           LAMBDA probe, fallback :
        IF fallback.score > probe.score THEN <<probe, fallback>> ELSE <<fallback, probe>>)

\* route.ts lines 343, 371, 376-381: the strategies in descending score order
orderedStrategies(modeSelection) ==
    Eager2([name |-> "apiProbe",
            score |-> IF modeSelection.mode = "speakerDirectory" THEN 100 ELSE 40],
           [name |-> "firecrawlFallback", score |-> 10],
           LAMBDA probe, fallback :
        IF fallback.score > probe.score THEN <<fallback, probe>> ELSE <<probe, fallback>>)

---------------------------------------------------------------------------
(* runFirecrawlFallbackStrategy: one pass of the loop *)

\* the log lines of a pass, route.ts lines 176, 199 and 234
PassSwitchedLine == "Pass ${passIndex}: speaker signals detected; switching to speakerDirectory mode."
PassCountedLine == "Pass ${passIndex}: extracted=${n}, new=${n}, cumulative=${n}."
PassFailedLine == "Pass ${passIndex} failed for ${sessionUrl}: ${message}"

reachedPlateauThresholdAfterThree(passIndex, size, consecutiveNoGrowthPasses) ==
    /\ passIndex >= MIN_PASSES_BEFORE_PLATEAU_STOP
    /\ size > 0
    /\ consecutiveNoGrowthPasses >= SPEAKER_NO_GROWTH_STOP_PASSES + 1

\* route.ts lines 208-211
reachedPlateauThreshold(passIndex, size, consecutiveNoGrowthPasses) ==
    /\ passIndex >= MIN_PASSES_BEFORE_PLATEAU_STOP
    /\ size > 0
    /\ consecutiveNoGrowthPasses >= SPEAKER_NO_GROWTH_STOP_PASSES

\* lines 197-216: the pass is counted; f holds the merged rows already
passCounted(f, beforeUniqueCount, extracted) ==
    Eager(Len(f.uniqueAppearanceMap) - beforeUniqueCount, LAMBDA newSpeakersThisPass :
    Eager(IF newSpeakersThisPass = 0 THEN f.consecutiveNoGrowthPasses + 1 ELSE 0,
          LAMBDA consecutive :
    Eager(reachedPlateauThreshold(f.passIndex, Len(f.uniqueAppearanceMap), consecutive),
          LAMBDA reached :
        [f |-> [f EXCEPT !.consecutiveNoGrowthPasses = consecutive,
                         !.stopReason = IF reached THEN "plateau_no_growth" ELSE @],
         lines |-> <<Line(PassCountedLine,
                          <<f.passIndex, extracted, newSpeakersThisPass,
                            Len(f.uniqueAppearanceMap)>>)>>,
         stop |-> reached])))

\* lines 159-216: the scrape of the pass returned passResult
passSucceeded(f, passResult) ==
    Eager2(passModeOf(f),
           [f EXCEPT !.artifacts =
               Append(@, [passResult.debugArtifact EXCEPT !.passIndex = f.passIndex])],
           LAMBDA passMode, f1 :
        IF /\ ~f.shouldEnterSpeakerMode
           /\ passMode = "session"
           /\ Len(passResult.appearances) = 0
           /\ hasSpeakerSignals(passResult.debugArtifact)
        THEN [f |-> [f1 EXCEPT !.shouldEnterSpeakerMode = TRUE],
              lines |-> <<Line(PassSwitchedLine,
                               <<f.passIndex>>)>>,
              stop |-> FALSE]
        ELSE passCounted(
               [f1 EXCEPT !.shouldEnterSpeakerMode =
                              IF f.shouldEnterSpeakerMode THEN TRUE
                              ELSE passMode = "speakerDirectory",
                          !.sessionRowsByUrl = addSessionRows(@, passResult.sessions),
                          !.uniqueAppearanceMap = addAppearances(@, passResult.appearances)],
               Len(f.uniqueAppearanceMap), Len(passResult.appearances)))

\* lines 217-239: the scrape of the pass threw
passFailed(f, message) ==
    Eager(f.failedPasses + 1, LAMBDA failedPasses :
        [f |-> [f EXCEPT !.failedPasses = failedPasses,
                         !.artifacts = Append(@, Artifact(f.sessionUrl, FALSE, passModeOf(f),
                                                          "firecrawlFallback", f.passIndex,
                                                          Undefined, Undefined, Undefined,
                                                          message)),
                         !.stopReason = IF failedPasses >= MAX_SPEAKER_PASS_FAILURES
                                        THEN "max_pass_failures" ELSE @],
         lines |-> <<Line(PassFailedLine,
                          <<f.passIndex, f.sessionUrl, message>>)>>,
         stop |-> failedPasses >= MAX_SPEAKER_PASS_FAILURES])

---------------------------------------------------------------------------
---------------------------------------------------------------------------
(* Speaker-like objects in a JSON payload: speaker-api-strategy.ts *)

\* a JSON value read from a property: its typeof, and its text when a string
JsonUndefined == [type |-> "undefined", text |-> <<>>]
JsonNull == [type |-> "null", text |-> <<>>]
JsonNumber == [type |-> "number", text |-> <<>>]
JsonString(text) == [type |-> "string", text |-> text]

\* a ?? b: b when a is null or undefined, a otherwise
nullish(a, b) == IF a.type \in {"undefined", "null"} THEN b ELSE a

\* lines 32-38: the trimmed text of a string that has any, else undefined
normalizeText(value) ==
    IF value.type # "string" THEN Undefined
    ELSE Eager(trim(value.text), LAMBDA trimmed :
            IF Len(trimmed) > 0 THEN trimmed ELSE Undefined)

\* lines 40-60, for a value that is an object and no array
isSpeakerLikeObject(record) ==
    /\ normalizeText(nullish(record["name"],
                     nullish(record["fullName"], record["displayName"]))) # Undefined
    /\ \/ normalizeText(nullish(record["organization"],
                        nullish(record["company"],
                        nullish(record["title"],
                        nullish(record["jobTitle"],
                        nullish(record["profileUrl"],
                        nullish(record["profileURL"],
                        nullish(record["websiteUrl"], record["url"])))))))) # Undefined
       \/ record["id"].type = "string"
       \/ record["id"].type = "number"

---------------------------------------------------------------------------
(* POST /api/extraction/map as a state machine.  An action runs the        *)
(* synchronous code from one point to the next: from the return of an     *)
(* awaited call to the issue of the next one, or between two points of    *)
(* the synchronous code.  The signal can only trip while POST is          *)
(* suspended at an await.                                                 *)

MaxDbFaults == 2

AwaitPcs ==
    {"request_json", "create_job", "update_crawling", "map", "update_extracting",
     "api_launch", "api_goto", "api_scroll", "api_replay", "api_close",
     "fb_single", "fb_pass", "update_page", "update_saving", "save_artifacts",
     "persist", "update_complete", "update_failed"}

RunLocals ==
    [eventId |-> Undefined, startUrl |-> Undefined, jobId |-> 0,
     mapped |-> [totalMappedUrls |-> 0, mappedUrls |-> <<>>, filteredUrls |-> <<>>],
     targetedSessionUrls |-> <<>>, pageIndex |-> 0,
     modeSelection |-> [mode |-> "session", isAmbiguous |-> TRUE],
     orderedStrategies |-> <<>>, strategyIndex |-> 0, result |-> NullResult,
     extractedSessions |-> <<>>, extractedAppearances |-> <<>>, scrapeArtifacts |-> <<>>,
     processedUrls |-> <<>>, scrapeErrors |-> <<>>, message |-> Null,
     persisted |-> [sessionsFound |-> 0, speakerAppearancesFound |-> 0,
                    uniqueSpeakersFound |-> 0]]

ApiLocals(pageUrl) ==
    [pageUrl |-> pageUrl, captures |-> <<>>, unique |-> <<>>, delivered |-> {},
     pass |-> 0, stagnantPasses |-> 0, index |-> 0, bestCapture |-> 0,
     pagination |-> NoPagination, stopReason |-> "", outcome |-> "none",
     result |-> NullResult]

FallbackLocals(sessionUrl, modeSelection) ==
    [sessionUrl |-> sessionUrl, modeSelection |-> modeSelection,
     uniqueAppearanceMap |-> <<>>, sessionRowsByUrl |-> <<>>, artifacts |-> <<>>,
     consecutiveNoGrowthPasses |-> 0, failedPasses |-> 0, stopReason |-> "max_passes_reached",
     shouldEnterSpeakerMode |-> modeSelection.mode = "speakerDirectory", passIndex |-> 1]

NoResponse == [status |-> 0, error |-> Null]
NeverTripped == [at |-> "never", status |-> "none", pageIndex |-> 0]

\* no POST in progress
RunIdle ==
    /\ pc = "idle"
    /\ aborted = FALSE
    /\ request = [valid |-> FALSE, body |-> "none", eventId |-> Undefined,
                  startUrl |-> Undefined]
    /\ site = [map |-> [ok |-> FALSE, links |-> <<>>], pages |-> <<>>]
    /\ logLines = <<>>
    /\ job = NoJob
    /\ jobWrites = <<>>
    /\ run = RunLocals
    /\ api = ApiLocals(<<>>)
    /\ fb = FallbackLocals(<<>>, [mode |-> "session", isAmbiguous |-> TRUE])
    /\ trip = NeverTripped
    /\ issued = {}
    /\ dbFaults = 0
    /\ response = NoResponse

\* the page the loop is at
sessionUrlOf(r) == r.targetedSessionUrls[r.pageIndex]

EmptyPayload ==
    [sessions |-> <<>>, speakers |-> <<>>, markdown |-> Undefined, html |-> Undefined,
     jsonText |-> Undefined]

ScrapeOk(payload) == [ok |-> TRUE, payload |-> payload, message |-> Null]
ScrapeError(message) == [ok |-> FALSE, payload |-> EmptyPayload, message |-> message]

\* what the site answers for a page; a page the site does not know answers nothing
UnknownPage ==
    [launch |-> "ok", goto |-> "fail", captures |-> <<>>, replay |-> <<>>,
     scrape |-> [script |-> <<>>, otherwise |-> {ScrapeError(ScrapeFailedMessage)}]]

PageOf(url) ==
    IF \E i \in 1..Len(site.pages) : site.pages[i].url = url
    THEN site.pages[CHOOSE i \in 1..Len(site.pages) : site.pages[i].url = url].page
    ELSE UnknownPage

\* the outcome of a database call: the number of failing calls is bounded
DbOutcomes == IF dbFaults < MaxDbFaults THEN {"ok", "error"} ELSE {"ok"}

\* a call of the kind is issued: kept when the signal has tripped
Issue(kind) == IF aborted THEN issued \cup {kind} ELSE issued

\* a write of the job row
WriteJob(patch) ==
    /\ job' = updateJobByIdInDb(job, patch)
    /\ jobWrites' = Append(jobWrites, patch.status)

\* an awaited call rejected with the message: control goes to the outer catch
Throw(message) ==
    /\ run' = [run EXCEPT !.message = message]
    /\ pc' = "catch"

\* a database call failed: its error is thrown
ThrowDbError ==
    /\ Throw(DbErrorMessage)
    /\ dbFaults' = dbFaults + 1

\* the log line of the outer catch, route.ts line 534
ExtractionFailedLine == "Extraction failed: ${message}"

trimmedOrEmpty(value) == IF value = Undefined THEN <<>> ELSE trim(value)

\* lines 271-286: the body is read and validated, the job insert is issued.
\* request.json() returns any JSON value unchecked; reading eventId of a body
\* that is null throws a TypeError
PostRequest ==
    /\ pc = "request_json"
    /\ IF ~request.valid
       THEN /\ Throw(InvalidJsonMessage)
            /\ UNCHANGED <<logLines, response>>
       ELSE IF request.body = "null"
       THEN /\ Throw("Cannot read properties of null (reading 'eventId')")
            /\ UNCHANGED <<logLines, response>>
       ELSE IF trimmedOrEmpty(request.eventId) = <<>>
               \/ trimmedOrEmpty(request.startUrl) = <<>>
       THEN /\ response' = [status |-> 400, error |-> "eventId and startUrl are required."]
            /\ pc' = "done"
            /\ UNCHANGED <<logLines, run>>
       ELSE /\ run' = [run EXCEPT !.eventId = trim(request.eventId),
                                  !.startUrl = trim(request.startUrl)]
            /\ logLines' = Append(logLines, Line("Extraction queued.", <<>>))
            /\ pc' = "create_job"
            /\ UNCHANGED response
    /\ UNCHANGED <<fnVars, dbVars, aborted, request, site, job, jobWrites, api, fb, trip,
                   issued, dbFaults>>

\* lines 286-297: the job row is inserted, the crawling update is issued
CreateJobReturns ==
    /\ pc = "create_job"
    /\ \E outcome \in DbOutcomes :
         IF outcome = "ok"
         THEN /\ job' = queuedJobRow(logLines)
              /\ jobWrites' = Append(jobWrites, "queued")
              /\ run' = [run EXCEPT !.jobId = 1]
              /\ logLines' = Append(logLines, Line("Crawling started.", <<>>))
              /\ pc' = "update_crawling"
              /\ UNCHANGED dbFaults
         ELSE /\ ThrowDbError
              /\ UNCHANGED <<job, jobWrites, logLines>>
    /\ UNCHANGED <<fnVars, dbVars, aborted, request, site, api, fb, trip, issued, response>>

\* lines 289-299: the crawling update returned, the map request is issued
UpdateCrawlingReturns ==
    /\ pc = "update_crawling"
    /\ \E outcome \in DbOutcomes :
         IF outcome = "ok"
         THEN /\ WriteJob(crawlingPatch(logLines))
              /\ issued' = Issue("map")
              /\ pc' = "map"
              /\ UNCHANGED <<run, dbFaults>>
         ELSE /\ ThrowDbError
              /\ UNCHANGED <<job, jobWrites, issued>>
    /\ UNCHANGED <<fnVars, dbVars, aborted, request, site, logLines, api, fb, trip, response>>

\* lines 299-327: the map request returned, the URLs are filtered and
\* targeted, the extracting update is issued
MapReturns ==
    /\ pc = "map"
    /\ IF ~site.map.ok
       THEN /\ Throw(MapFailedMessage)
            /\ UNCHANGED logLines
       ELSE \E mapped \in {mappedOf(run.startUrl, site.map.links)} :
              IF mapped.state = "threw"
              THEN /\ Throw(InvalidUrlMessage)
                   /\ UNCHANGED logLines
              ELSE \E targeted \in {targetedSessionUrlsOf(mapped.value.filteredUrls)} :
                     /\ run' = [run EXCEPT !.mapped = mapped.value,
                                           !.targetedSessionUrls = targeted]
                     /\ logLines' = Append(logLines,
                            Line("Mapping complete. ${n} total URLs, ${n} after filter, ${n} targeted.",
                                 <<mapped.value.totalMappedUrls,
                                   Len(mapped.value.filteredUrls), Len(targeted)>>))
                     /\ pc' = "update_extracting"
    /\ UNCHANGED <<fnVars, dbVars, aborted, request, site, job, jobWrites, api, fb, trip,
                   issued, dbFaults, response>>

\* lines 312-333: the extracting update returned, the page loop is entered
UpdateExtractingReturns ==
    /\ pc = "update_extracting"
    /\ \E outcome \in DbOutcomes :
         IF outcome = "ok"
         THEN /\ WriteJob(extractingPatch(run.mapped, logLines))
              /\ run' = [run EXCEPT !.pageIndex = 1]
              /\ pc' = "page_begin"
              /\ UNCHANGED dbFaults
         ELSE /\ ThrowDbError
              /\ UNCHANGED <<job, jobWrites>>
    /\ UNCHANGED <<fnVars, dbVars, aborted, request, site, logLines, api, fb, trip, issued,
                   response>>

\* lines 335-387 and 457-473: the head of the page loop.  After the last page
\* the saving update is issued; a tripped signal is thrown as a cancellation;
\* else the page is classified and the strategies are ordered
PageBegin ==
    /\ pc = "page_begin"
    /\ IF run.pageIndex > Len(run.targetedSessionUrls)
       THEN /\ logLines' = Append(logLines,
                               Line("Saving extracted sessions and speakers.", <<>>))
            /\ pc' = "update_saving"
            /\ UNCHANGED run
       ELSE IF aborted
       THEN /\ Throw(CancelledMessage)
            /\ UNCHANGED logLines
       ELSE \E modeSelection \in {pickExtractionMode(sessionUrlOf(run))} :
              /\ run' = [run EXCEPT !.modeSelection = modeSelection,
                                    !.orderedStrategies = orderedStrategies(modeSelection),
                                    !.strategyIndex = 1,
                                    !.result = NullResult]
              /\ logLines' = Append(logLines,
                     Line("Mode selected for ${sessionUrl}: ${mode}${ambiguous}.",
                          <<sessionUrlOf(run), modeSelection.mode,
                            modeSelection.isAmbiguous>>))
              /\ pc' = "strategy_next"
    /\ UNCHANGED <<fnVars, dbVars, aborted, request, site, job, jobWrites, api, fb, trip,
                   issued, dbFaults, response>>

\* lines 389-411: the next strategy of the page is run; when none is left
\* the page fails with the empty-results error
StrategyNext ==
    /\ pc = "strategy_next"
    /\ IF run.strategyIndex > Len(run.orderedStrategies)
       THEN /\ run' = [run EXCEPT !.message = EmptyResultsMessage]
            /\ pc' = "page_catch"
            /\ UNCHANGED <<logLines, api, issued>>
       ELSE \E entry \in {run.orderedStrategies[run.strategyIndex]} :
              IF entry.score <= 0
              THEN /\ run' = [run EXCEPT !.strategyIndex = @ + 1]
                   /\ UNCHANGED <<pc, logLines, api, issued>>
              ELSE /\ logLines' = Append(logLines,
                          Line("Running strategy ${name} for ${sessionUrl} (score=${score}).",
                               <<entry.name, sessionUrlOf(run), entry.score>>))
                   /\ issued' = Issue("strategy")
                   /\ IF entry.name = "apiProbe"
                      THEN /\ api' = ApiLocals(sessionUrlOf(run))
                           /\ pc' = "api_launch"
                      ELSE /\ pc' = "call_fallback"
                           /\ UNCHANGED api
                   /\ UNCHANGED run
    /\ UNCHANGED <<fnVars, dbVars, aborted, request, site, job, jobWrites, fb, trip,
                   dbFaults, response>>

\* lines 402-420 and 439: the strategy returned.  A result with a session or
\* an appearance is accepted and the page snapshot is issued; else the next
\* strategy is tried
StrategyReturned ==
    /\ pc = "strategy_returned"
    /\ IF ~run.result.isNull
          /\ (Len(run.result.appearances) > 0 \/ Len(run.result.sessions) > 0)
       THEN /\ run' = [run EXCEPT
                         !.processedUrls = Append(@, sessionUrlOf(run)),
                         !.extractedSessions = @ \o run.result.sessions,
                         !.extractedAppearances = @ \o run.result.appearances,
                         !.scrapeArtifacts = @ \o run.result.artifacts]
            /\ logLines' = logLines \o
                 <<Line("Strategy ${name} completed for ${sessionUrl} (stopReason=${stopReason}, appearances=${n}).",
                        <<run.orderedStrategies[run.strategyIndex].name, sessionUrlOf(run),
                          run.result.stopReason, Len(run.result.appearances)>>),
                   Line("Processed page ${n}/${n}: ${sessionUrl}",
                        <<Len(run.processedUrls) + 1, Len(run.targetedSessionUrls),
                          sessionUrlOf(run)>>)>>
            /\ pc' = "update_page"
       ELSE /\ run' = [run EXCEPT !.strategyIndex = @ + 1]
            /\ pc' = "strategy_next"
            /\ UNCHANGED logLines
    /\ UNCHANGED <<fnVars, dbVars, aborted, request, site, job, jobWrites, api, fb, trip,
                   issued, dbFaults, response>>

\* a page loop without the per-page catch: the error of the page reaches the
\* outer catch
PageCatchRethrows ==
    /\ pc = "page_catch"
    /\ Throw(run.message)
    /\ UNCHANGED <<fnVars, dbVars, aborted, request, site, logLines, job, jobWrites, api, fb,
                   trip, issued, dbFaults, response>>

\* a catch that also counts the failed page as processed
PageCatchAlsoProcessed ==
    /\ pc = "page_catch"
    /\ run' = [run EXCEPT
                 !.processedUrls = Append(@, sessionUrlOf(run)),
                 !.scrapeErrors = Append(@, <<sessionUrlOf(run), run.message>>),
                 !.scrapeArtifacts =
                     Append(@, Artifact(sessionUrlOf(run), FALSE, run.modeSelection.mode,
                                        "none", 0, Undefined, Undefined, Undefined,
                                        run.message))]
    /\ logLines' = Append(logLines, Line("Scrape failed for ${sessionUrl}.",
                                         <<sessionUrlOf(run)>>))
    /\ pc' = "update_page"
    /\ UNCHANGED <<fnVars, dbVars, aborted, request, site, job, jobWrites, api, fb, trip,
                   issued, dbFaults, response>>

\* lines 421-439: an error of the page is recorded and the page snapshot is issued
PageCatch ==
    /\ pc = "page_catch"
    /\ run' = [run EXCEPT
                 !.scrapeErrors = Append(@, <<sessionUrlOf(run), run.message>>),
                 !.scrapeArtifacts =
                     Append(@, Artifact(sessionUrlOf(run), FALSE, run.modeSelection.mode,
                                        "none", 0, Undefined, Undefined, Undefined,
                                        run.message))]
    /\ logLines' = Append(logLines, Line("Scrape failed for ${sessionUrl}.",
                                         <<sessionUrlOf(run)>>))
    /\ pc' = "update_page"
    /\ UNCHANGED <<fnVars, dbVars, aborted, request, site, job, jobWrites, api, fb, trip,
                   issued, dbFaults, response>>

\* a page loop that writes no snapshot after a page
UpdatePageSkipped ==
    /\ pc = "update_page"
    /\ run' = [run EXCEPT !.pageIndex = @ + 1]
    /\ pc' = "page_begin"
    /\ UNCHANGED <<fnVars, dbVars, aborted, request, site, logLines, job, jobWrites, api, fb,
                   trip, issued, dbFaults, response>>

\* lines 439-455: the page snapshot returned, the loop goes to the next page
UpdatePageReturns ==
    /\ pc = "update_page"
    /\ \E outcome \in DbOutcomes :
         IF outcome = "ok"
         THEN /\ WriteJob(pagePatch(run, logLines))
              /\ run' = [run EXCEPT !.pageIndex = @ + 1]
              /\ pc' = "page_begin"
              /\ UNCHANGED dbFaults
         ELSE /\ ThrowDbError
              /\ UNCHANGED <<job, jobWrites>>
    /\ UNCHANGED <<fnVars, dbVars, aborted, request, site, logLines, api, fb, trip, issued,
                   response>>

\* lines 458-476: the saving update returned, the artifact save is issued
UpdateSavingReturns ==
    /\ pc = "update_saving"
    /\ \E outcome \in DbOutcomes :
         IF outcome = "ok"
         THEN /\ WriteJob(savingPatch(run, logLines))
              /\ pc' = "save_artifacts"
              /\ UNCHANGED <<run, dbFaults>>
         ELSE /\ ThrowDbError
              /\ UNCHANGED <<job, jobWrites>>
    /\ UNCHANGED <<fnVars, dbVars, aborted, request, site, logLines, api, fb, trip, issued,
                   response>>

\* lines 475-489: createJobPageScrapesInDb returned or threw; its error is
\* logged, and the persist call is issued
SaveArtifactsReturns ==
    /\ pc = "save_artifacts"
    /\ \E outcome \in DbOutcomes :
         IF outcome = "ok"
         THEN /\ logLines' = Append(logLines, Line("Saved ${n} page scrape artifacts.",
                                                   <<Len(run.scrapeArtifacts)>>))
              /\ UNCHANGED dbFaults
         ELSE /\ logLines' = Append(logLines,
                                    Line("Page artifact persistence failed: ${message}",
                                         <<DbErrorMessage>>))
              /\ dbFaults' = dbFaults + 1
    /\ pc' = "persist"
    /\ UNCHANGED <<fnVars, dbVars, aborted, request, site, job, jobWrites, run, api, fb,
                   trip, issued, response>>

\* lines 484-516: persistExtractedConferenceDataInDb returned or threw; the
\* counts are logged and the complete update is issued
PersistReturns ==
    /\ pc = "persist"
    /\ \E outcome \in DbOutcomes :
         IF outcome = "ok"
         THEN \E persisted \in {persistExtractedConferenceDataInDb(
                                   db, run.eventId, run.extractedSessions,
                                   run.extractedAppearances)} :
                /\ db' = persisted.db
                /\ UNCHANGED dbFaults
                /\ IF persisted.threw
                   THEN /\ Throw(DbErrorMessage)
                        /\ UNCHANGED logLines
                   ELSE /\ run' = [run EXCEPT !.persisted =
                                      [sessionsFound |-> persisted.sessionsFound,
                                       speakerAppearancesFound |->
                                           persisted.speakerAppearancesFound,
                                       uniqueSpeakersFound |-> persisted.uniqueSpeakersFound]]
                        /\ logLines' = logLines \o
                             <<Line("Saved ${n} sessions, ${n} appearances, ${n} unique speakers.",
                                    <<persisted.sessionsFound,
                                      persisted.speakerAppearancesFound,
                                      persisted.uniqueSpeakersFound>>),
                               IF Len(run.scrapeErrors) > 0
                               THEN Line("${n} pages failed during scrape.",
                                         <<Len(run.scrapeErrors)>>)
                               ELSE Line("No scrape errors reported.", <<>>)>>
                        /\ pc' = "update_complete"
         ELSE /\ ThrowDbError
              /\ UNCHANGED <<db, logLines>>
    /\ UNCHANGED <<fnVars, persistCalls, aborted, request, site, job, jobWrites, api, fb,
                   trip, issued, response>>

\* a complete update whose error is dropped like that of the failed update
UpdateCompleteReturnsSwallowsError ==
    /\ pc = "update_complete"
    /\ \E outcome \in DbOutcomes :
         IF outcome = "ok"
         THEN /\ WriteJob(completePatch(run, logLines))
              /\ response' = [status |-> 200, error |-> Null]
              /\ pc' = "done"
              /\ UNCHANGED <<run, dbFaults>>
         ELSE /\ dbFaults' = dbFaults + 1
              /\ response' = [status |-> 200, error |-> Null]
              /\ pc' = "done"
              /\ UNCHANGED <<job, jobWrites, run>>
    /\ UNCHANGED <<fnVars, dbVars, aborted, request, site, logLines, api, fb, trip, issued>>

\* lines 499-529: the complete update returned, the endpoint answers 200
UpdateCompleteReturns ==
    /\ pc = "update_complete"
    /\ \E outcome \in DbOutcomes :
         IF outcome = "ok"
         THEN /\ WriteJob(completePatch(run, logLines))
              /\ response' = [status |-> 200, error |-> Null]
              /\ pc' = "done"
              /\ UNCHANGED <<run, dbFaults>>
         ELSE /\ ThrowDbError
              /\ UNCHANGED <<job, jobWrites, response>>
    /\ UNCHANGED <<fnVars, dbVars, aborted, request, site, logLines, api, fb, trip, issued>>

\* lines 530-549: the outer catch.  With a job row the failure is logged and
\* the failed update is issued; without one the endpoint answers 500
Catch ==
    /\ pc = "catch"
    /\ IF run.jobId # 0
       THEN /\ logLines' = Append(logLines, Line(ExtractionFailedLine,
                                                 <<run.message>>))
            /\ pc' = "update_failed"
            /\ UNCHANGED response
       ELSE /\ response' = [status |-> 500, error |-> run.message]
            /\ pc' = "done"
            /\ UNCHANGED logLines
    /\ UNCHANGED <<fnVars, dbVars, aborted, request, site, job, jobWrites, run, api, fb,
                   trip, issued, dbFaults>>

\* lines 535-549: the failed update returned or threw (its error is dropped),
\* the endpoint answers 500
UpdateFailedReturns ==
    /\ pc = "update_failed"
    /\ \E outcome \in DbOutcomes :
         IF outcome = "ok"
         THEN /\ WriteJob(failedPatch(logLines, run.message))
              /\ UNCHANGED dbFaults
         ELSE /\ dbFaults' = dbFaults + 1
              /\ UNCHANGED <<job, jobWrites>>
    /\ response' = [status |-> 500, error |-> run.message]
    /\ pc' = "done"
    /\ UNCHANGED <<fnVars, dbVars, aborted, request, site, logLines, run, api, fb, trip,
                   issued>>

\* the client goes away: request.signal trips while POST is suspended
Abort ==
    /\ pc \in AwaitPcs
    /\ ~aborted
    /\ aborted' = TRUE
    /\ trip' = [at |-> pc, status |-> job.status, pageIndex |-> run.pageIndex]
    /\ UNCHANGED <<fnVars, dbVars, pc, request, site, logLines, job, jobWrites, run, api, fb,
                   issued, dbFaults, response>>

---------------------------------------------------------------------------
(* The two strategies as steps of the run *)

ApiResponsePcs == {"api_goto", "api_scroll", "api_replay"}

\* speaker-api-strategy.ts line 191-193 and 230: the browser is launched,
\* the navigation is issued.  A launch that fails rejects the probe, which
\* the strategy's wrapper (route.ts 359-366) turns into null
ApiLaunchReturns ==
    /\ pc = "api_launch"
    /\ IF PageOf(api.pageUrl).launch = "ok"
       THEN /\ issued' = Issue("navigation")
            /\ pc' = "api_goto"
            /\ UNCHANGED <<logLines, run>>
       ELSE /\ logLines' = Append(logLines,
                               Line("apiProbe strategy failed for ${url}: ${message}",
                                    <<api.pageUrl, BrowserErrorMessage>>))
            /\ run' = [run EXCEPT !.result = NullResult]
            /\ pc' = "strategy_returned"
            /\ UNCHANGED issued
    /\ UNCHANGED <<fnVars, dbVars, aborted, request, site, job, jobWrites, api, fb, trip,
                   dbFaults, response>>

\* lines 198-227: the response listener runs for a JSON response of the page
ApiResponse ==
    /\ pc \in ApiResponsePcs
    /\ PageOf(api.pageUrl).goto = "ok"
    /\ \E i \in 1..Len(PageOf(api.pageUrl).captures) :
         /\ i \notin api.delivered
         /\ \E capture \in {PageOf(api.pageUrl).captures[i]} :
              api' = IF Len(capture.candidates) = 0
                     THEN [api EXCEPT !.delivered = @ \cup {i}]
                     ELSE [api EXCEPT !.delivered = @ \cup {i},
                                      !.captures = Append(@, capture),
                                      !.unique = addCandidates(@, capture.candidates,
                                                               api.pageUrl)]
    /\ UNCHANGED <<fnVars, dbVars, pc, aborted, request, site, logLines, job, jobWrites, run,
                   fb, trip, issued, dbFaults, response>>

\* lines 230-233: the navigation returned or threw
ApiGotoReturns ==
    /\ pc = "api_goto"
    /\ IF PageOf(api.pageUrl).goto = "ok"
       THEN /\ api' = [api EXCEPT !.pass = 1]
            /\ pc' = "api_scroll_begin"
       ELSE /\ api' = [api EXCEPT !.outcome = "throw"]
            /\ pc' = "api_close"
    /\ UNCHANGED <<fnVars, dbVars, aborted, request, site, logLines, job, jobWrites, run, fb,
                   trip, issued, dbFaults, response>>

\* lines 233-268: the head of the scroll loop; after it the best capture
\* and its pagination are taken
ApiScrollBegin ==
    /\ pc = "api_scroll_begin"
    /\ IF api.pass <= API_SCROLL_PASSES /\ ~aborted
       THEN /\ pc' = "api_scroll"
            /\ UNCHANGED api
       ELSE \E best \in {bestCaptureOf(api.captures)} :
              IF best = 0
              THEN /\ api' = [api EXCEPT !.stopReason = "network_probe_only"]
                   /\ pc' = "api_finish"
              ELSE \E pagination \in {detectPagination(api.captures[best].url)} :
                     /\ api' = [api EXCEPT !.bestCapture = best,
                                           !.pagination = pagination,
                                           !.stagnantPasses = 0,
                                           !.index = 1,
                                           !.stopReason = "network_probe_only"]
                     /\ pc' = IF pagination.style # "none" THEN "api_replay_begin"
                              ELSE "api_finish"
    /\ UNCHANGED <<fnVars, dbVars, aborted, request, site, logLines, job, jobWrites, run, fb,
                   trip, issued, dbFaults, response>>

\* lines 237-254: one scroll pass returned
ApiScrollReturns ==
    /\ pc = "api_scroll"
    /\ api' = [api EXCEPT !.pass = @ + 1]
    /\ pc' = "api_scroll_begin"
    /\ UNCHANGED <<fnVars, dbVars, aborted, request, site, logLines, job, jobWrites, run, fb,
                   trip, issued, dbFaults, response>>

\* the replay loop with its cap one request later
ApiReplayBeginCapOfFiftyOne ==
    /\ pc = "api_replay_begin"
    /\ IF /\ api.index <= API_MAX_REPLAY_INDEX + 1
          /\ api.stagnantPasses < API_STAGNANT_STOP
          /\ ~aborted
       THEN /\ api' = [api EXCEPT !.index = @ + 1]
            /\ pc' = "api_replay"
       ELSE /\ api' = [api EXCEPT !.stopReason = "api_pagination_exhausted"]
            /\ pc' = "api_finish"
    /\ UNCHANGED <<fnVars, dbVars, aborted, request, site, logLines, job, jobWrites, run, fb,
                   trip, issued, dbFaults, response>>

\* lines 271-284 and 312: the head of the replay loop
ApiReplayBegin ==
    /\ pc = "api_replay_begin"
    /\ IF /\ api.index <= API_MAX_REPLAY_INDEX
          /\ api.stagnantPasses < API_STAGNANT_STOP
          /\ ~aborted
       THEN /\ api' = [api EXCEPT !.index = @ + 1]
            /\ pc' = "api_replay"
       ELSE /\ api' = [api EXCEPT !.stopReason = "api_pagination_exhausted"]
            /\ pc' = "api_finish"
    /\ UNCHANGED <<fnVars, dbVars, aborted, request, site, logLines, job, jobWrites, run, fb,
                   trip, issued, dbFaults, response>>

\* what the endpoint answers to the replay of the index
ReplayAnswer(page, index) ==
    IF index - 1 <= Len(page.replay) THEN page.replay[index - 1]
    ELSE [answer |-> "notok", candidates |-> <<>>]

\* lines 284-310: the replay request returned or threw
ApiReplayReturns ==
    /\ pc = "api_replay"
    /\ \E answer \in {ReplayAnswer(PageOf(api.pageUrl), api.index)} :
         IF answer.answer # "ok"
         THEN api' = [api EXCEPT !.stagnantPasses = @ + 1]
         ELSE \E unique \in {addCandidates(api.unique, answer.candidates, api.pageUrl)} :
                api' = [api EXCEPT
                          !.captures = Append(@,
                              [url |-> replayUrl(api.captures[api.bestCapture].url,
                                                 api.pagination, api.index),
                               candidates |-> answer.candidates]),
                          !.unique = unique,
                          !.stagnantPasses = IF Len(unique) - Len(api.unique) = 0
                                             THEN @ + 1 ELSE 0]
    /\ pc' = "api_replay_begin"
    /\ UNCHANGED <<fnVars, dbVars, aborted, request, site, logLines, job, jobWrites, run, fb,
                   trip, issued, dbFaults, response>>

\* lines 316-331: the result is built, the browser is closed
ApiFinish ==
    /\ pc = "api_finish"
    /\ \E result \in {apiResultOf(api)} :
         /\ api' = [api EXCEPT !.result = result, !.outcome = "return"]
         /\ logLines' = IF result.isNull THEN logLines
                        ELSE Append(logLines,
                                 Line("API probe strategy captured ${n} unique speakers.",
                                      <<Len(result.appearances)>>))
    /\ pc' = "api_close"
    /\ UNCHANGED <<fnVars, dbVars, aborted, request, site, job, jobWrites, run, fb, trip,
                   issued, dbFaults, response>>

\* route.ts lines 345-366: the probe returned or threw into the strategy's wrapper
ApiCloseReturns ==
    /\ pc = "api_close"
    /\ IF api.outcome = "throw"
       THEN /\ logLines' = Append(logLines,
                               Line("apiProbe strategy failed for ${url}: ${message}",
                                    <<api.pageUrl, BrowserErrorMessage>>))
            /\ run' = [run EXCEPT !.result = NullResult]
       ELSE /\ logLines' = IF ~api.result.isNull /\ api.bestCapture # 0
                           THEN Append(logLines,
                                    Line("API endpoint discovered for ${url}: ${endpointUrl}",
                                         <<api.pageUrl, api.captures[api.bestCapture].url>>))
                           ELSE logLines
            /\ run' = [run EXCEPT !.result = api.result]
    /\ pc' = "strategy_returned"
    /\ UNCHANGED <<fnVars, dbVars, aborted, request, site, job, jobWrites, api, fb, trip,
                   issued, dbFaults, response>>

\* what the scrape of the page answers on the pass: the scripted answer, or
\* any of the page's other answers once the script is over
ScrapeAnswers(page, passIndex) ==
    IF passIndex <= Len(page.scrape.script) THEN {page.scrape.script[passIndex]}
    ELSE page.scrape.otherwise

\* fetch with a signal: a request whose signal has tripped rejects
ScrapeOutcomes(page, passIndex) ==
    IF aborted THEN {ScrapeError(AbortErrorMessage)} ELSE ScrapeAnswers(page, passIndex)

\* route.ts lines 118-142: runFirecrawlFallbackStrategy is entered
FbEnter ==
    /\ pc = "call_fallback"
    /\ fb' = FallbackLocals(sessionUrlOf(run), run.modeSelection)
    /\ pc' = IF shouldRunSpeakerPassLoop(run.modeSelection) THEN "fb_pass_begin"
             ELSE "fb_single"
    /\ UNCHANGED <<fnVars, dbVars, aborted, request, site, logLines, job, jobWrites, run, api,
                   trip, issued, dbFaults, response>>

\* lines 123-131: the single scrape returned or threw
FbSingleReturns ==
    /\ pc = "fb_single"
    /\ \E outcome \in ScrapeOutcomes(PageOf(fb.sessionUrl), 1) :
         IF outcome.ok
         THEN \E singlePass \in {scrapeResult(outcome.payload, "session", fb.sessionUrl)} :
                /\ run' = [run EXCEPT !.result =
                              StrategyResult(singlePass.sessions, singlePass.appearances,
                                             <<singlePass.debugArtifact>>,
                                             "single_session_pass")]
                /\ pc' = "strategy_returned"
         ELSE /\ run' = [run EXCEPT !.message = outcome.message]
              /\ pc' = "page_catch"
    /\ UNCHANGED <<fnVars, dbVars, aborted, request, site, logLines, job, jobWrites, api, fb,
                   trip, issued, dbFaults, response>>

\* a pass loop that allows one pass more
FbPassBeginCapOfNine ==
    /\ pc = "fb_pass_begin"
    /\ IF fb.passIndex > MAX_SPEAKER_PASSES + 1
       THEN /\ run' = [run EXCEPT !.result = fallbackResultOf(fb)]
            /\ pc' = "strategy_returned"
            /\ UNCHANGED logLines
       ELSE IF aborted
       THEN /\ run' = [run EXCEPT !.message = CancelledMessage]
            /\ pc' = "page_catch"
            /\ UNCHANGED logLines
       ELSE /\ logLines' = Append(logLines,
                               Line("Pass ${passIndex} (${passMode}) started for ${sessionUrl}.",
                                    <<fb.passIndex, passModeOf(fb), fb.sessionUrl>>))
            /\ pc' = "fb_pass"
            /\ UNCHANGED run
    /\ UNCHANGED <<fnVars, dbVars, aborted, request, site, job, jobWrites, api, fb, trip,
                   issued, dbFaults, response>>

\* lines 144-154 and 242-247: the head of the pass loop
FbPassBegin ==
    /\ pc = "fb_pass_begin"
    /\ IF fb.passIndex > MAX_SPEAKER_PASSES
       THEN /\ run' = [run EXCEPT !.result = fallbackResultOf(fb)]
            /\ pc' = "strategy_returned"
            /\ UNCHANGED logLines
       ELSE IF aborted
       THEN /\ run' = [run EXCEPT !.message = CancelledMessage]
            /\ pc' = "page_catch"
            /\ UNCHANGED logLines
       ELSE /\ logLines' = Append(logLines,
                               Line("Pass ${passIndex} (${passMode}) started for ${sessionUrl}.",
                                    <<fb.passIndex, passModeOf(fb), fb.sessionUrl>>))
            /\ pc' = "fb_pass"
            /\ UNCHANGED run
    /\ UNCHANGED <<fnVars, dbVars, aborted, request, site, job, jobWrites, api, fb, trip,
                   issued, dbFaults, response>>

\* lines 154-247: the scrape of the pass returned or threw
FbPassReturns ==
    /\ pc = "fb_pass"
    /\ \E outcome \in ScrapeOutcomes(PageOf(fb.sessionUrl), fb.passIndex) :
         \E after \in {IF outcome.ok
                       THEN passSucceeded(fb, scrapeResult(outcome.payload, passModeOf(fb),
                                                           fb.sessionUrl))
                       ELSE passFailed(fb, outcome.message)} :
           /\ logLines' = logLines \o after.lines
           /\ IF after.stop
              THEN /\ fb' = after.f
                   /\ run' = [run EXCEPT !.result = fallbackResultOf(after.f)]
                   /\ pc' = "strategy_returned"
              ELSE /\ fb' = [after.f EXCEPT !.passIndex = @ + 1]
                   /\ pc' = "fb_pass_begin"
                   /\ UNCHANGED run
    /\ UNCHANGED <<fnVars, dbVars, aborted, request, site, job, jobWrites, api, trip, issued,
                   dbFaults, response>>

---------------------------------------------------------------------------
(* Inputs of the URL filter *)

MaxMapped == 2

StartUrlPool ==
    {<<"h", "t", "t", "p", "s", ":", "/", "/", "c", "o", "n", "f", ".", "e", "x", "a", "m", "p", "l", "e", "/">>, <<"h", "t", "t", "p", "s", ":", "/", "/", "C", "o", "n", "f", ".", "E", "x", "a", "m", "p", "l", "e", "/", "s", "t", "a", "r", "t">>, <<"h", "t", "t", "p", ":", "/", "/", "o", "t", "h", "e", "r", ".", "c", "o", "m">>, <<"n", "o", "t", " ", "a", " ", "u", "r", "l">>}

MappedUrlPool ==
    {<<"h", "t", "t", "p", "s", ":", "/", "/", "c", "o", "n", "f", ".", "e", "x", "a", "m", "p", "l", "e", "/", "a", "g", "e", "n", "d", "a">>,
     <<"h", "t", "t", "p", "s", ":", "/", "/", "c", "o", "n", "f", ".", "e", "x", "a", "m", "p", "l", "e", "/", "a", "g", "e", "n", "d", "a", "#", "t", "o", "p">>,
     <<"h", "t", "t", "p", "s", ":", "/", "/", "C", "O", "N", "F", ".", "e", "x", "a", "m", "p", "l", "e", "/", "A", "g", "e", "n", "d", "a">>,
     <<"h", "t", "t", "p", ":", "/", "/", "c", "o", "n", "f", ".", "e", "x", "a", "m", "p", "l", "e", "/", "a", "g", "e", "n", "d", "a">>,
     <<"h", "t", "t", "p", "s", ":", "/", "/", "c", "o", "n", "f", ".", "e", "x", "a", "m", "p", "l", "e", "/", "s", "t", "y", "l", "e", ".", "c", "s", "s">>,
     <<"h", "t", "t", "p", "s", ":", "/", "/", "c", "o", "n", "f", ".", "e", "x", "a", "m", "p", "l", "e", "/", "l", "o", "g", "o", ".", "P", "N", "G">>,
     <<"h", "t", "t", "p", "s", ":", "/", "/", "c", "o", "n", "f", ".", "e", "x", "a", "m", "p", "l", "e", "/", "f", "i", "l", "e", "s", "/", "a", "r", "c", "h", "i", "v", "e", ".", "t", "a", "r", ".", "g", "z">>,
     <<"h", "t", "t", "p", "s", ":", "/", "/", "c", "o", "n", "f", ".", "e", "x", "a", "m", "p", "l", "e", "/", "v", "1", ".", "2", "/", "s", "p", "e", "a", "k", "e", "r", "s">>,
     <<"h", "t", "t", "p", "s", ":", "/", "/", "c", "o", "n", "f", ".", "e", "x", "a", "m", "p", "l", "e", "/", "p", "a", "g", "e", "?", "f", "i", "l", "e", "=", "a", ".", "c", "s", "s">>,
     <<"h", "t", "t", "p", "s", ":", "/", "/", "c", "o", "n", "f", ".", "e", "x", "a", "m", "p", "l", "e">>,
     <<"h", "t", "t", "p", "s", ":", "/", "/", "o", "t", "h", "e", "r", ".", "c", "o", "m", "/", "a", "g", "e", "n", "d", "a">>,
     <<"f", "t", "p", ":", "/", "/", "c", "o", "n", "f", ".", "e", "x", "a", "m", "p", "l", "e", "/", "a", "g", "e", "n", "d", "a">>,
     <<"m", "a", "i", "l", "t", "o", ":", "t", "e", "a", "m", "@", "c", "o", "n", "f", ".", "e", "x", "a", "m", "p", "l", "e">>,
     <<"/", "a", "g", "e", "n", "d", "a">>}

SeqsUpTo(S, n) == UNION {[1..k -> S] : k \in 0..n}

FilterInit ==
    /\ fnIn \in {[fn |-> "filterMappedUrls", startUrl |-> s, mappedUrls |-> m] :
                    s \in StartUrlPool, m \in SeqsUpTo(MappedUrlPool, MaxMapped)}
    /\ fnOut = NotCalled
    /\ DbIdle
    /\ RunIdle

FilterCall ==
    /\ fnIn.fn = "filterMappedUrls"
    /\ fnOut = NotCalled
    /\ fnOut' = filterMappedUrls(fnIn.startUrl, fnIn.mappedUrls)
    /\ UNCHANGED <<fnIn, dbVars, runVars>>

SpecFilter == FilterInit /\ [][FilterCall]_vars

---------------------------------------------------------------------------
(* Inputs of the identity keys *)

Appearance(name, organization, profileUrl, sessionUrl) ==
    [name |-> name, organization |-> organization, title |-> Undefined,
     profileUrl |-> profileUrl, role |-> Undefined, sessionUrl |-> sessionUrl]

KeyNamePool ==
    {<<"J", "a", "n", "e", " ", "D", "o", "e">>, <<"j", "a", "n", "e", " ", " ", " ", "d", "o", "e">>, <<" ", "J", "a", "n", "e", "-", "D", "o", "e", " ">>, <<"J", "o", "s">> \o <<"e_acute">>}

KeyOrgPool == {Undefined, <<"A", "c", "m", "e", " ", "I", "n", "c", ".">>, <<"A", "C", "M", "E", ",", " ", "I", "N", "C", ".">>, <<"D", "o", "e">>}

KeyProfilePool ==
    {Undefined,
     <<"h", "t", "t", "p", "s", ":", "/", "/", "c", "o", "n", "f", ".", "e", "x", "a", "m", "p", "l", "e", "/", "s", "p", "e", "a", "k", "e", "r", "s", "/", "j", "a", "n", "e">>,
     <<"h", "t", "t", "p", "s", ":", "/", "/", "c", "o", "n", "f", ".", "e", "x", "a", "m", "p", "l", "e", "/", "s", "p", "e", "a", "k", "e", "r", "s", "/", "j", "a", "n", "e", "#", "b", "i", "o">>,
     <<"h", "t", "t", "p", "s", ":", "/", "/", "c", "o", "n", "f", ".", "e", "x", "a", "m", "p", "l", "e", "/", "s", "p", "e", "a", "k", "e", "r", "s", "/", "J", "a", "n", "e">>,
     <<"H", "T", "T", "P", "S", ":", "/", "/", "C", "O", "N", "F", ".", "e", "x", "a", "m", "p", "l", "e", "/", "s", "p", "e", "a", "k", "e", "r", "s", "/", "j", "a", "n", "e">>}

KeyAppearancePool ==
    {Appearance(n, o, p, <<"h", "t", "t", "p", "s", ":", "/", "/", "c", "o", "n", "f", ".", "e", "x", "a", "m", "p", "l", "e", "/", "a", "g", "e", "n", "d", "a">>) :
        n \in KeyNamePool, o \in KeyOrgPool, p \in KeyProfilePool}

KeyInit ==
    /\ fnIn \in {[fn |-> "identityKeys", a |-> a, b |-> b] :
                    a \in KeyAppearancePool, b \in KeyAppearancePool}
    /\ fnOut = NotCalled
    /\ DbIdle
    /\ RunIdle

\* the three keys of each appearance of the pair
KeyCall ==
    /\ fnIn.fn = "identityKeys"
    /\ fnOut = NotCalled
    /\ fnOut' = Returned(
          [route |-> <<speakerAppearanceKey(fnIn.a), speakerAppearanceKey(fnIn.b)>>,
           probe |-> <<appearanceKey(fnIn.a), appearanceKey(fnIn.b)>>,
           persist |-> <<persistLookupKey(fnIn.a), persistLookupKey(fnIn.b)>>])
    /\ UNCHANGED <<fnIn, dbVars, runVars>>

SpecKey == KeyInit /\ [][KeyCall]_vars

---------------------------------------------------------------------------
(* Sequential persist calls on one database *)

MaxPersistCalls == 3

AgendaUrl == <<"h", "t", "t", "p", "s", ":", "/", "/", "c", "o", "n", "f", ".", "e", "x", "a", "m", "p", "l", "e", "/", "a", "g", "e", "n", "d", "a">>
SpeakersUrl == <<"h", "t", "t", "p", "s", ":", "/", "/", "c", "o", "n", "f", ".", "e", "x", "a", "m", "p", "l", "e", "/", "s", "p", "e", "a", "k", "e", "r", "s">>

SessionAgenda == [title |-> <<"A", "g", "e", "n", "d", "a">>, url |-> AgendaUrl]
SessionAgendaDay2 == [title |-> <<"D", "a", "y", " ", "2">>, url |-> <<"h", "t", "t", "p", "s", ":", "/", "/", "c", "o", "n", "f", ".", "e", "x", "a", "m", "p", "l", "e", "/", "a", "g", "e", "n", "d", "a", "#", "d", "a", "y", "2">>]
SessionDirectory == [title |-> <<"S", "p", "e", "a", "k", "e", "r", " ", "D", "i", "r", "e", "c", "t", "o", "r", "y">>, url |-> SpeakersUrl]

JaneProfile == <<"h", "t", "t", "p", "s", ":", "/", "/", "c", "o", "n", "f", ".", "e", "x", "a", "m", "p", "l", "e", "/", "s", "p", "e", "a", "k", "e", "r", "s", "/", "j", "a", "n", "e">>

\* one speaker seen with a profile URL, without one, with a fragment, with
\* another path case, and a second speaker on a page that may be unresolved
AppJaneProfile == Appearance(<<"J", "a", "n", "e", " ", "D", "o", "e">>, <<"A", "c", "m", "e", " ", "I", "n", "c", ".">>, JaneProfile, AgendaUrl)
AppJaneNoProfile == Appearance(<<"j", "a", "n", "e", " ", " ", " ", "d", "o", "e">>, <<"A", "C", "M", "E", ",", " ", "I", "N", "C", ".">>, Undefined, AgendaUrl)
AppJaneFragment ==
    Appearance(<<"J", "a", "n", "e", " ", "D", "o", "e">>, <<"A", "c", "m", "e", " ", "I", "n", "c", ".">>, <<"h", "t", "t", "p", "s", ":", "/", "/", "c", "o", "n", "f", ".", "e", "x", "a", "m", "p", "l", "e", "/", "s", "p", "e", "a", "k", "e", "r", "s", "/", "j", "a", "n", "e", "#", "b", "i", "o">>, AgendaUrl)
AppJaneOtherCase ==
    Appearance(<<"J", "a", "n", "e", " ", "D", "o", "e">>, Undefined, <<"h", "t", "t", "p", "s", ":", "/", "/", "c", "o", "n", "f", ".", "e", "x", "a", "m", "p", "l", "e", "/", "s", "p", "e", "a", "k", "e", "r", "s", "/", "J", "a", "n", "e">>, SpeakersUrl)
AppJose == Appearance(<<"J", "o", "s">> \o <<"e_acute">>, <<"D", "o", "e">>, Undefined, SpeakersUrl)
AppJoseNoOrg == Appearance(<<"J", "O", "S", "E">>, Undefined, Undefined, AgendaUrl)

\* one speaker named twice on one page, under two roles
AppJaneModerator == [AppJaneProfile EXCEPT !.role = <<"M", "o", "d", "e", "r", "a", "t", "o", "r">>]
AppJanePanelist == [AppJaneNoProfile EXCEPT !.role = <<"P", "a", "n", "e", "l", "i", "s", "t">>]

PersistInput(eventId, sessions, appearances) ==
    [eventId |-> eventId, sessions |-> sessions, speakerAppearances |-> appearances]

PersistInputPool ==
    {PersistInput("e1", <<SessionAgenda>>, <<AppJaneProfile, AppJaneNoProfile>>),
     PersistInput("e1", <<SessionAgenda>>, <<AppJaneNoProfile, AppJaneProfile>>),
     PersistInput("e1", <<SessionAgenda>>, <<AppJaneNoProfile>>),
     PersistInput("e1", <<SessionAgenda, SessionAgendaDay2, SessionDirectory>>,
                  <<AppJaneFragment, AppJaneOtherCase, AppJose>>),
     PersistInput("e1", <<SessionAgenda>>, <<AppJose, AppJoseNoOrg, AppJaneProfile>>),
     PersistInput("e1", <<SessionDirectory>>, <<AppJose, AppJaneOtherCase, AppJose>>),
     PersistInput("e1", <<>>, <<AppJaneProfile>>),
     PersistInput("e1", <<SessionAgenda>>, <<AppJaneModerator, AppJanePanelist>>),
     PersistInput("e2", <<SessionAgenda>>, <<AppJaneProfile, AppJoseNoOrg>>),
     PersistInput("e2", <<SessionAgenda, SessionDirectory>>, <<AppJose, AppJaneNoProfile>>)}

PersistInit ==
    /\ FnIdle
    /\ db = EmptyDb
    /\ persistCalls = <<>>
    /\ RunIdle

\* one call of persistExtractedConferenceDataInDb, made after the previous one returned
PersistCall ==
    /\ Len(persistCalls) < MaxPersistCalls
    /\ \E input \in PersistInputPool :
         \E r \in {persistExtractedConferenceDataInDb(db, input.eventId, input.sessions,
                                                     input.speakerAppearances)} :
             /\ db' = r.db
             /\ persistCalls' = Append(persistCalls,
                   [input |-> input, threw |-> r.threw,
                    speakerIdByIdentity |-> r.speakerIdByIdentity,
                    rowsForSessionLink |-> r.rowsForSessionLink,
                    sessionIdByUrl |-> r.sessionIdByUrl,
                    speakersBefore |-> Len(db.speakers),
                    speakersAfter |-> Len(r.db.speakers),
                    linksBefore |-> db.session_speakers,
                    linksAfter |-> r.db.session_speakers,
                    sessionsFound |-> r.sessionsFound,
                    speakerAppearancesFound |-> r.speakerAppearancesFound,
                    uniqueSpeakersFound |-> r.uniqueSpeakersFound])
    /\ UNCHANGED <<fnVars, runVars>>

SpecPersist == PersistInit /\ [][PersistCall]_vars

---------------------------------------------------------------------------
(* Requests and sites of the runs *)

StartUrl == <<"h", "t", "t", "p", "s", ":", "/", "/", "c", "o", "n", "f", ".", "e", "x", "a", "m", "p", "l", "e", "/">>
AboutUrl == <<"h", "t", "t", "p", "s", ":", "/", "/", "c", "o", "n", "f", ".", "e", "x", "a", "m", "p", "l", "e", "/", "a", "b", "o", "u", "t">>
ScheduleUrl == <<"h", "t", "t", "p", "s", ":", "/", "/", "c", "o", "n", "f", ".", "e", "x", "a", "m", "p", "l", "e", "/", "s", "c", "h", "e", "d", "u", "l", "e">>
ApiPagedUrl == <<"h", "t", "t", "p", "s", ":", "/", "/", "c", "o", "n", "f", ".", "e", "x", "a", "m", "p", "l", "e", "/", "a", "p", "i", "/", "s", "p", "e", "a", "k", "e", "r", "s", "?", "p", "a", "g", "e", "=", "1">>
ApiPlainUrl == <<"h", "t", "t", "p", "s", ":", "/", "/", "c", "o", "n", "f", ".", "e", "x", "a", "m", "p", "l", "e", "/", "a", "p", "i", "/", "s", "p", "e", "a", "k", "e", "r", "s">>
ApiConfigUrl == <<"h", "t", "t", "p", "s", ":", "/", "/", "c", "o", "n", "f", ".", "e", "x", "a", "m", "p", "l", "e", "/", "a", "p", "i", "/", "c", "o", "n", "f", "i", "g">>

Request(eventId, startUrl) ==
    [valid |-> TRUE, body |-> "object", eventId |-> eventId, startUrl |-> startUrl]

GoodRequest == Request(<<" ", "e", "1", " ">>, StartUrl)

RequestPool ==
    {GoodRequest,
     [valid |-> FALSE, body |-> "none", eventId |-> Undefined, startUrl |-> Undefined],
     [valid |-> TRUE, body |-> "null", eventId |-> Undefined, startUrl |-> Undefined],
     Request(Undefined, StartUrl),
     Request(<<" ", " ">>, StartUrl),
     Request(<<"e", "1">>, Undefined),
     Request(<<"e", "1">>, <<"c", "o", "n", "f", ".", "e", "x", "a", "m", "p", "l", "e">>)}

\* a speaker as the scrape's JSON names it
ScrapedSpeaker(name, organization) ==
    [name |-> name, organization |-> organization, title |-> Undefined,
     profileWebsiteUrl |-> Undefined, websiteUrl |-> Undefined, profileUrl |-> Undefined,
     role |-> Undefined]

\* a speaker as a JSON response of the page names it
Candidate(name, organization, profileUrl) ==
    [name |-> name, organization |-> organization, title |-> Undefined,
     profileUrl |-> profileUrl, role |-> Undefined]

ScrapedSpeakers ==
    <<ScrapedSpeaker(<<"J", "a", "n", "e", " ", "D", "o", "e">>, <<"A", "c", "m", "e", " ", "I", "n", "c", ".">>),
      ScrapedSpeaker(<<"J", "o", "s">> \o <<"e_acute">>, <<"D", "o", "e">>),
      ScrapedSpeaker(<<"A", "n", "n", " ", "L", "e", "e">>, Undefined)>>

\* the page with the first n speakers on it, under either schema
SpeakersPayload(n) ==
    [sessions |-> <<[title |-> <<"A", "g", "e", "n", "d", "a">>, url |-> Undefined,
                     speakers |-> SubSeq(ScrapedSpeakers, 1, n)]>>,
     speakers |-> SubSeq(ScrapedSpeakers, 1, n),
     markdown |-> <<"A", "g", "e", "n", "d", "a">>, html |-> Undefined, jsonText |-> <<"{", "s", "e", "s", "s", "i", "o", "n", "s", ",", "s", "p", "e", "a", "k", "e", "r", "s", "}">>]

\* a page that names speakers in its text and yields none
SignalsPayload ==
    [sessions |-> <<>>, speakers |-> <<>>, markdown |-> <<"O", "u", "r", " ", "S", "p", "e", "a", "k", "e", "r", "s">>,
     html |-> Undefined, jsonText |-> Undefined]

ScrapeFails == ScrapeError(ScrapeFailedMessage)

Page(launch, goto, captures, replay, script) ==
    [launch |-> launch, goto |-> goto, captures |-> captures, replay |-> replay,
     scrape |-> [script |-> script, otherwise |-> {ScrapeFails}]]

Site(mapOk, links, pages) == [map |-> [ok |-> mapOk, links |-> links], pages |-> pages]

Capture(url, candidates) == [url |-> url, candidates |-> candidates]
Replay(answer, candidates) == [answer |-> answer, candidates |-> candidates]

CandidateJane == Candidate(<<"J", "a", "n", "e", " ", "D", "o", "e">>, <<"A", "c", "m", "e", " ", "I", "n", "c", ".">>, <<"h", "t", "t", "p", "s", ":", "/", "/", "c", "o", "n", "f", ".", "e", "x", "a", "m", "p", "l", "e", "/", "s", "p", "e", "a", "k", "e", "r", "s", "/", "j", "a", "n", "e">>)
CandidateJose == Candidate(<<"J", "o", "s">> \o <<"e_acute">>, <<"D", "o", "e">>, Undefined)

\* a directory whose endpoint is paged: two replays answer, the third does not
PagedDirectoryPage ==
    Page("ok", "ok",
         <<Capture(ApiPagedUrl, <<CandidateJane>>), Capture(ApiConfigUrl, <<>>)>>,
         <<Replay("ok", <<CandidateJose>>), Replay("ok", <<CandidateJose>>),
           Replay("throw", <<>>)>>,
         <<>>)

\* a directory whose endpoint is not paged
PlainDirectoryPage ==
    Page("ok", "ok", <<Capture(ApiPlainUrl, <<CandidateJane, CandidateJose>>)>>, <<>>, <<>>)

\* an agenda the browser cannot open and the scrape reads
AgendaPage == Page("fail", "ok", <<>>, <<>>, <<ScrapeOk(SpeakersPayload(2))>>)

\* a page with no JSON responses whose scrape grows for three passes
GrowingPage ==
    Page("ok", "ok", <<>>, <<>>,
         <<ScrapeOk(SpeakersPayload(1)), ScrapeOk(SpeakersPayload(2)),
           ScrapeOk(SpeakersPayload(3)), ScrapeOk(SpeakersPayload(3)),
           ScrapeOk(SpeakersPayload(3))>>)

\* a page nothing can read
DeadPage == Page("ok", "fail", <<>>, <<>>, <<>>)

\* a page the scrape reads and finds nothing on
EmptyPage == Page("ok", "ok", <<>>, <<>>, <<ScrapeOk(EmptyPayload)>>)

\* a site with more agenda pages than a run visits: the first one can be
\* read, the others cannot
LargeSitePages == 22

LargeSiteLink(n) == AgendaUrl \o <<"/", LowerAlpha[n]>>

LargeSite ==
    Site(TRUE, [n \in 1..LargeSitePages |-> LargeSiteLink(n)],
         <<[url |-> LargeSiteLink(1), page |-> AgendaPage]>>)

SitePool ==
    {Site(FALSE, <<>>, <<>>),
     Site(TRUE, <<>>, <<>>),
     Site(TRUE, <<SpeakersUrl, <<"h", "t", "t", "p", "s", ":", "/", "/", "c", "o", "n", "f", ".", "e", "x", "a", "m", "p", "l", "e", "/", "l", "o", "g", "o", ".", "p", "n", "g">>>>,
          <<[url |-> SpeakersUrl, page |-> PagedDirectoryPage]>>),
     Site(TRUE, <<AboutUrl>>, <<[url |-> AboutUrl, page |-> GrowingPage]>>),
     Site(TRUE, <<AgendaUrl, <<"h", "t", "t", "p", "s", ":", "/", "/", "c", "o", "n", "f", ".", "e", "x", "a", "m", "p", "l", "e", "/", "s", "p", "e", "a", "k", "e", "r", "s", "#", "a", "l", "l">>>>,
          <<[url |-> AgendaUrl, page |-> AgendaPage],
            [url |-> SpeakersUrl, page |-> PlainDirectoryPage]>>),
     Site(TRUE, <<SpeakersUrl>>, <<[url |-> SpeakersUrl, page |-> DeadPage]>>),
     Site(TRUE, <<AgendaUrl, ScheduleUrl, SpeakersUrl>>,
          <<[url |-> AgendaUrl, page |-> DeadPage],
            [url |-> ScheduleUrl, page |-> EmptyPage],
            [url |-> SpeakersUrl, page |-> PlainDirectoryPage]>>),
     LargeSite}

RunInit ==
    /\ FnIdle
    /\ DbIdle
    /\ pc = "request_json"
    /\ aborted = FALSE
    /\ \/ request \in RequestPool /\ site = Site(TRUE, <<>>, <<>>)
       \/ request = GoodRequest /\ site \in SitePool
    /\ logLines = <<>>
    /\ job = NoJob
    /\ jobWrites = <<>>
    /\ run = RunLocals
    /\ api = ApiLocals(<<>>)
    /\ fb = FallbackLocals(<<>>, [mode |-> "session", isAmbiguous |-> TRUE])
    /\ trip = NeverTripped
    /\ issued = {}
    /\ dbFaults = 0
    /\ response = NoResponse

Next ==
    \/ PostRequest
    \/ CreateJobReturns
    \/ UpdateCrawlingReturns
    \/ MapReturns
    \/ UpdateExtractingReturns
    \/ PageBegin
    \/ StrategyNext
    \/ ApiLaunchReturns
    \/ ApiResponse
    \/ ApiGotoReturns
    \/ ApiScrollBegin
    \/ ApiScrollReturns
    \/ ApiReplayBegin
    \/ ApiReplayReturns
    \/ ApiFinish
    \/ ApiCloseReturns
    \/ FbEnter
    \/ FbSingleReturns
    \/ FbPassBegin
    \/ FbPassReturns
    \/ StrategyReturned
    \/ PageCatch
    \/ UpdatePageReturns
    \/ UpdateSavingReturns
    \/ SaveArtifactsReturns
    \/ PersistReturns
    \/ UpdateCompleteReturns
    \/ Catch
    \/ UpdateFailedReturns
    \/ Abort

Spec == RunInit /\ [][Next]_vars

(* The scrape strategy alone, on a page whose scrape answers anything *)

FbScrapePool ==
    {ScrapeFails, ScrapeOk(EmptyPayload), ScrapeOk(SignalsPayload),
     ScrapeOk(SpeakersPayload(1)), ScrapeOk(SpeakersPayload(2)), ScrapeOk(SpeakersPayload(3))}

FbPagePool == {SpeakersUrl, AgendaUrl, AboutUrl}

AnyScrapePage ==
    [launch |-> "fail", goto |-> "fail", captures |-> <<>>, replay |-> <<>>,
     scrape |-> [script |-> <<>>, otherwise |-> FbScrapePool]]

\* the strategy loop of POST calls the strategy for the one targeted page
FbInitOn(page) ==
    /\ FnIdle
    /\ DbIdle
    /\ pc = "call_fallback"
    /\ aborted \in BOOLEAN
    /\ request = GoodRequest
    /\ \E url \in FbPagePool :
         /\ site = Site(TRUE, <<url>>, <<[url |-> url, page |-> page]>>)
         /\ run = [RunLocals EXCEPT !.eventId = <<"e", "1">>, !.startUrl = StartUrl, !.jobId = 1,
                                    !.targetedSessionUrls = <<url>>, !.pageIndex = 1,
                                    !.modeSelection = pickExtractionMode(url),
                                    !.orderedStrategies =
                                        orderedStrategies(pickExtractionMode(url)),
                                    !.strategyIndex = 2]
    /\ logLines = <<>>
    /\ job = NoJob
    /\ jobWrites = <<>>
    /\ api = ApiLocals(<<>>)
    /\ fb = FallbackLocals(<<>>, [mode |-> "session", isAmbiguous |-> TRUE])
    /\ trip = NeverTripped
    /\ issued = {}
    /\ dbFaults = 0
    /\ response = NoResponse

FbInit == FbInitOn(AnyScrapePage)

FbNext ==
    \/ FbEnter
    \/ FbSingleReturns
    \/ FbPassBegin
    \/ FbPassReturns
    \/ Abort

SpecFallback == FbInit /\ [][FbNext]_vars

\* the strategy's own steps; each awaits a request that returns or throws
FbStep == FbEnter \/ FbSingleReturns \/ FbPassBegin \/ FbPassReturns

\* the strategy alone, with every awaited scrape eventually settling
\* a scrape that fails, finds nothing, or finds one or two speakers
LiveScrapePage ==
    [launch |-> "fail", goto |-> "fail", captures |-> <<>>, replay |-> <<>>,
     scrape |-> [script |-> <<>>,
                 otherwise |-> {ScrapeFails, ScrapeOk(EmptyPayload),
                                ScrapeOk(SpeakersPayload(1)), ScrapeOk(SpeakersPayload(2))}]]

FbLiveInit == FbInitOn(LiveScrapePage)

SpecFallbackLive == FbLiveInit /\ [][FbNext]_vars /\ WF_vars(FbStep)


\* the steps of the run itself: every awaited call settles, whether it
\* returns or throws; the client going away is no step of the run
RunStep ==
    \/ PostRequest \/ CreateJobReturns \/ UpdateCrawlingReturns \/ MapReturns
    \/ UpdateExtractingReturns \/ PageBegin \/ StrategyNext
    \/ ApiLaunchReturns \/ ApiGotoReturns \/ ApiScrollBegin \/ ApiScrollReturns
    \/ ApiReplayBegin \/ ApiReplayReturns \/ ApiFinish \/ ApiCloseReturns
    \/ FbEnter \/ FbSingleReturns \/ FbPassBegin \/ FbPassReturns
    \/ StrategyReturned \/ PageCatch \/ UpdatePageReturns \/ UpdateSavingReturns
    \/ SaveArtifactsReturns \/ PersistReturns \/ UpdateCompleteReturns
    \/ Catch \/ UpdateFailedReturns

\* one POST with every awaited call eventually settling
SpecLive == RunInit /\ [][Next]_vars /\ WF_vars(RunStep)
---------------------------------------------------------------------------
(* Inputs of the page classification *)

ModeBasePool == {<<"h", "t", "t", "p", "s", ":", "/", "/", "c", "o", "n", "f", ".", "e", "x", "a", "m", "p", "l", "e">>, <<"h", "t", "t", "p", "s", ":", "/", "/", "s", "p", "e", "a", "k", "e", "r", "s", ".", "e", "x", "a", "m", "p", "l", "e">>, <<"c", "o", "n", "f", ".", "e", "x", "a", "m", "p", "l", "e">>}

ModeFirstSegmentPool ==
    {<<>>, <<"/", "s", "p", "e", "a", "k", "e", "r", "s">>, <<"/", "P", "r", "e", "s", "e", "n", "t", "e", "r", "s">>, <<"/", "a", "g", "e", "n", "d", "a">>, <<"/", "i", "n", "f", "o">>, <<"/", "f", "a", "c", "u", "l", "t", "y", "-", "p", "r", "o", "g", "r", "a", "m">>}

ModeSecondSegmentPool == {<<>>, <<"/", "k", "e", "y", "n", "o", "t", "e", "s">>, <<"/", "S", "E", "S", "S", "I", "O", "N", "S">>, <<"/", "s", "p", "e", "a", "k", "e", "r">>}

ModeQueryPool == {<<>>, <<"?", "t", "a", "b", "=", "s", "c", "h", "e", "d", "u", "l", "e">>, <<"?", "q", "=", "F", "a", "c", "u", "l", "t", "y">>}

ModeFragmentPool == {<<>>, <<"#", "s", "p", "e", "a", "k", "e", "r", "s">>}

ModeInit ==
    /\ fnIn \in {[fn |-> "pickExtractionMode", base |-> b, path |-> p1 \o p2, query |-> q,
                  url |-> b \o p1 \o p2 \o q \o f] :
                    b \in ModeBasePool, p1 \in ModeFirstSegmentPool,
                    p2 \in ModeSecondSegmentPool, q \in ModeQueryPool, f \in ModeFragmentPool}
    /\ fnOut = NotCalled
    /\ DbIdle
    /\ RunIdle

ModeCall ==
    /\ fnIn.fn = "pickExtractionMode"
    /\ fnOut = NotCalled
    /\ fnOut' = Returned(pickExtractionMode(fnIn.url))
    /\ UNCHANGED <<fnIn, dbVars, runVars>>

SpecMode == ModeInit /\ [][ModeCall]_vars

---------------------------------------------------------------------------
---------------------------------------------------------------------------
(* The probe alone, on directories whose endpoint answers the replays in every way *)

NameLetters == <<"a", "b", "c", "d", "e", "f", "g", "h", "i", "j">>

\* a speaker found by no other request than the replay of the index
CandidateOfReplay(index) ==
    Candidate(<<"s", " ", NameLetters[(index \div 10) + 1], NameLetters[(index % 10) + 1]>>,
              Undefined, Undefined)

ReplayKinds == {"new", "none", "notok", "throw"}

\* the answer of the kind to the n-th replay
ReplayOfKind(kind, n) ==
    CASE kind = "new" -> Replay("ok", <<CandidateOfReplay(n)>>)
      [] kind = "none" -> Replay("ok", <<CandidateJane>>)
      [] kind = "notok" -> Replay("notok", <<>>)
      [] kind = "throw" -> Replay("throw", <<>>)

ReplayScriptLen == 60

\* the endpoint answers the first replays as the prefix says; after them it
\* either answers no more, or goes on with a new speaker on every other replay
ReplayScript(prefix, tail) ==
    [n \in 1..ReplayScriptLen |->
        IF n <= Len(prefix) THEN ReplayOfKind(prefix[n], n)
        ELSE IF tail = "silent" THEN ReplayOfKind("notok", n)
        ELSE IF (n - Len(prefix)) % 2 = 1 THEN ReplayOfKind("new", n)
        ELSE ReplayOfKind("none", n)]

ReplayScriptPool ==
    {ReplayScript(<<first, second>>, tail) :
        first \in ReplayKinds, second \in ReplayKinds, tail \in {"silent", "endless"}}

\* a directory whose two endpoints both list Jane Doe, one of them with her title
CandidateJaneWithTitle == [CandidateJane EXCEPT !.title = <<"C", "E", "O">>]

TwoEndpointPage ==
    Page("ok", "ok",
         <<Capture(ApiPlainUrl, <<CandidateJane>>),
           Capture(ApiConfigUrl, <<CandidateJaneWithTitle>>)>>,
         <<>>, <<>>)

ProbePagePool ==
    {Page("ok", "ok", <<Capture(ApiPagedUrl, <<CandidateJane>>)>>, script, <<>>) :
        script \in ReplayScriptPool}
    \cup {Page("fail", "ok", <<>>, <<>>, <<>>),
          DeadPage,
          Page("ok", "ok", <<>>, <<>>, <<>>),
          Page("ok", "ok", <<Capture(ApiConfigUrl, <<>>)>>, <<>>, <<>>),
          PlainDirectoryPage,
          PagedDirectoryPage,
          TwoEndpointPage}

\* the strategy loop of POST has called the probe for the one targeted page
ProbeInit ==
    /\ FnIdle
    /\ DbIdle
    /\ pc = "api_launch"
    /\ aborted \in BOOLEAN
    /\ request = GoodRequest
    /\ \E page \in ProbePagePool :
         site = Site(TRUE, <<SpeakersUrl>>, <<[url |-> SpeakersUrl, page |-> page]>>)
    /\ run = [RunLocals EXCEPT !.eventId = <<"e", "1">>, !.startUrl = StartUrl, !.jobId = 1,
                               !.targetedSessionUrls = <<SpeakersUrl>>, !.pageIndex = 1,
                               !.modeSelection = pickExtractionMode(SpeakersUrl),
                               !.orderedStrategies =
                                   orderedStrategies(pickExtractionMode(SpeakersUrl)),
                               !.strategyIndex = 1]
    /\ logLines = <<>>
    /\ job = NoJob
    /\ jobWrites = <<>>
    /\ api = ApiLocals(SpeakersUrl)
    /\ fb = FallbackLocals(<<>>, [mode |-> "session", isAmbiguous |-> TRUE])
    /\ trip = NeverTripped
    /\ issued = {}
    /\ dbFaults = 0
    /\ response = NoResponse

ProbeNext ==
    \/ ApiLaunchReturns
    \/ ApiResponse
    \/ ApiGotoReturns
    \/ ApiScrollBegin
    \/ ApiScrollReturns
    \/ ApiReplayBegin
    \/ ApiReplayReturns
    \/ ApiFinish
    \/ ApiCloseReturns
    \/ Abort

SpecProbe == ProbeInit /\ [][ProbeNext]_vars

---------------------------------------------------------------------------
---------------------------------------------------------------------------
(* Inputs of the speaker-like test *)

NameKeys == {"name", "fullName", "displayName"}
SupportKeys ==
    {"organization", "company", "title", "jobTitle", "profileUrl", "profileURL",
     "websiteUrl", "url"}

NameValuePool == {JsonUndefined, JsonString(<<>>), JsonNumber, JsonString(<<"J", "a", "n", "e", " ", "D", "o", "e">>)}
SupportValuePool == {JsonUndefined, JsonString(<<" ", " ">>), JsonString(<<"A", "c", "m", "e">>)}
IdValuePool == {JsonUndefined, JsonNull, JsonNumber, JsonString(<<"s", "1">>)}

\* an object with the three name fields, at most two support fields, and an id
SpeakerLikeRecord(names, first, firstValue, second, secondValue, id) ==
    [key \in NameKeys \cup SupportKeys \cup {"id"} |->
        IF key \in NameKeys THEN names[key]
        ELSE IF key = "id" THEN id
        ELSE IF key = first THEN firstValue
        ELSE IF key = second THEN secondValue
        ELSE JsonUndefined]

SpeakerLikeInit ==
    /\ fnIn \in {[fn |-> "isSpeakerLikeObject",
                  value |-> SpeakerLikeRecord(names, first, firstValue, second, secondValue, id)] :
                    names \in [NameKeys -> NameValuePool],
                    first \in SupportKeys, firstValue \in SupportValuePool,
                    second \in SupportKeys, secondValue \in SupportValuePool,
                    id \in IdValuePool}
    /\ fnOut = NotCalled
    /\ DbIdle
    /\ RunIdle

\* collectSpeakerCandidates lines 99-104: the object popped from the stack is tested
SpeakerLikeCall ==
    /\ fnIn.fn = "isSpeakerLikeObject"
    /\ fnOut = NotCalled
    /\ fnOut' = Returned(isSpeakerLikeObject(fnIn.value))
    /\ UNCHANGED <<fnIn, dbVars, runVars>>

SpecSpeakerLike == SpeakerLikeInit /\ [][SpeakerLikeCall]_vars

---------------------------------------------------------------------------
---------------------------------------------------------------------------
(* Inputs of the target selection: filtered lists longer than the cap *)

MaxTargetUrls == 24

TargetPatterns == {"none", "all", "odd", "last", "query", "upper"}

\* the n-th mapped link: its path or query carries a coarse keyword as the pattern says
TargetLink(pattern, n, count) ==
    <<"h", "t", "t", "p", "s", ":", "/", "/", "c", "o", "n", "f", ".", "e", "x", "a", "m", "p", "l", "e", "/">>
    \o (CASE pattern = "all" \/ (pattern = "odd" /\ n % 2 = 1) \/ (pattern = "last" /\ n = count)
               -> <<"a", "g", "e", "n", "d", "a">>
          [] pattern = "upper" /\ n % 2 = 0 -> <<"S", "p", "e", "a", "k", "e", "r", "s">>
          [] OTHER -> <<"i", "n", "f", "o">>)
    \o <<"/", NameLetters[(n \div 10) + 1], NameLetters[(n % 10) + 1]>>
    \o (IF pattern = "query" /\ n % 3 = 0 THEN <<"?", "v", "i", "e", "w", "=", "s", "c", "h", "e", "d", "u", "l", "e">> ELSE <<>>)

\* the links the map answers: each page once, the first one again with a fragment
TargetLinks(pattern, count) ==
    [n \in 1..count |-> TargetLink(pattern, n, count)]
    \o (IF count > 0 THEN <<TargetLink(pattern, 1, count) \o <<"#", "t", "o", "p">>>> ELSE <<>>)

TargetInit ==
    /\ fnIn \in {[fn |-> "targetedSessionUrlsOf",
                  filteredUrls |-> filterMappedUrls(StartUrl, TargetLinks(pattern, count)).value] :
                    pattern \in TargetPatterns, count \in 0..MaxTargetUrls}
    /\ fnOut = NotCalled
    /\ DbIdle
    /\ RunIdle

\* route.ts lines 299-308: POST selects the pages to visit from mapped.filteredUrls
TargetCall ==
    /\ fnIn.fn = "targetedSessionUrlsOf"
    /\ fnOut = NotCalled
    /\ fnOut' = Returned(targetedSessionUrlsOf(fnIn.filteredUrls))
    /\ UNCHANGED <<fnIn, dbVars, runVars>>

SpecTarget == TargetInit /\ [][TargetCall]_vars

---------------------------------------------------------------------------
---------------------------------------------------------------------------
(* Inputs of the identity normalisation: spellings of one name *)

NormalizeBasePool == {<<"r", "e", "n", "e", "e", " ", "d", "o", "e">>, <<"j", "o", "s", "e">>, <<"a", "c", "m", "e", " ", "i", "n", "c">>}

InsertAt(s, p, c) == SubSeq(s, 1, p - 1) \o <<c>> \o SubSeq(s, p, Len(s))

\* position p is at an end of the string or next to white space
AtWordBoundary(s, p) ==
    \/ p = 1
    \/ p = Len(s) + 1
    \/ s[p] = " "
    \/ s[p - 1] = " "

\* the spellings that differ from s in one place: a letter in upper case, an
\* e with an acute accent, a punctuation mark or white space at a word boundary
SpellingsOf(s) ==
    {s}
    \cup {[s EXCEPT ![p] = UpperAlpha[CHOOSE i \in 1..Len(LowerAlpha) : LowerAlpha[i] = s[p]]] :
            p \in {q \in 1..Len(s) : s[q] \in Range(LowerAlpha)}}
    \cup {[s EXCEPT ![p] = "e_acute"] : p \in {q \in 1..Len(s) : s[q] = "e"}}
    \cup {InsertAt(s, p, c) :
            p \in {q \in 1..(Len(s) + 1) : AtWordBoundary(s, q)}, c \in {".", ",", " ", "TAB"}}

NormalizeInit ==
    /\ \E base \in NormalizeBasePool :
         fnIn \in {[fn |-> "normalizeIdentity", a |-> a, b |-> b] :
                     a \in SpellingsOf(base), b \in SpellingsOf(base)}
    /\ fnOut = NotCalled
    /\ DbIdle
    /\ RunIdle

\* part_000 lines 216-223 and route.ts lines 92-100 applied to both spellings
NormalizeCall ==
    /\ fnIn.fn = "normalizeIdentity"
    /\ fnOut = NotCalled
    /\ fnOut' = Returned(
          [value |-> <<normalizeIdentityValue(fnIn.a), normalizeIdentityValue(fnIn.b)>>,
           token |-> <<normalizeIdentityToken(fnIn.a), normalizeIdentityToken(fnIn.b)>>])
    /\ UNCHANGED <<fnIn, dbVars, runVars>>

SpecNormalize == NormalizeInit /\ [][NormalizeCall]_vars

---------------------------------------------------------------------------
---------------------------------------------------------------------------
(* Either strategy alone, on pages that name a speaker twice in different words *)

\* Jane Doe once more, spelled differently and with her title
ScrapedJaneWithTitle ==
    [ScrapedSpeaker(<<"j", "a", "n", "e", " ", " ", "d", "o", "e">>, <<"A", "C", "M", "E", ",", " ", "I", "N", "C", ".">>) EXCEPT !.title = <<"C", "E", "O">>]

\* the page naming Jane Doe with her title before or after the plain entry
RestatedPayload(titledFirst) ==
    [sessions |-> <<>>,
     speakers |-> IF titledFirst THEN <<ScrapedJaneWithTitle, ScrapedSpeakers[1]>>
                  ELSE <<ScrapedSpeakers[1], ScrapedJaneWithTitle>>,
     markdown |-> <<"S", "p", "e", "a", "k", "e", "r", "s">>, html |-> Undefined, jsonText |-> <<"{", "s", "p", "e", "a", "k", "e", "r", "s", "}">>]

RestatingScrapePage ==
    [launch |-> "fail", goto |-> "fail", captures |-> <<>>, replay |-> <<>>,
     scrape |-> [script |-> <<>>,
                 otherwise |-> {ScrapeFails, ScrapeOk(RestatedPayload(TRUE)),
                                ScrapeOk(RestatedPayload(FALSE)),
                                ScrapeOk(SpeakersPayload(2))}]]

FoldInit == ProbeInit \/ FbInitOn(RestatingScrapePage)

FoldNext == ProbeNext \/ FbStep

SpecFold == FoldInit /\ [][FoldNext]_vars

---------------------------------------------------------------------------
(* C7, C8: the URL filter *)

FilterReturned == fnIn.fn = "filterMappedUrls" /\ fnOut.state = "returned"

\* the final path segment and its extension, read off the path directly
FinalSegment(pathname) == SubSeq(pathname, lastIndexOf(pathname, "/") + 1, Len(pathname))

HasAssetExtension(pathname) ==
    LET seg == FinalSegment(pathname)
    IN  \E i \in 1..Len(seg) :
          /\ seg[i] = "."
          /\ \A j \in (i + 1)..Len(seg) : seg[j] # "."
          /\ toLowerCase(SubSeq(seg, i, Len(seg))) \in ASSET_EXTENSIONS

\* C7: every URL filterMappedUrls returns is on the start URL's host (compared
\* case-insensitively), has scheme http or https, and has no asset extension
\* on its final path segment.
C7_FilterOutputsSameHostHttpNonAsset ==
    FilterReturned =>
      \A i \in 1..Len(fnOut.value) :
        LET u == ParseUrl(fnOut.value[i])
        IN  /\ u.ok
            /\ toLowerCase(u.hostname) = toLowerCase(ParseUrl(fnIn.startUrl).hostname)
            /\ u.protocol \in {<<"h", "t", "t", "p", ":">>, <<"h", "t", "t", "p", "s", ":">>}
            /\ ~HasAssetExtension(u.pathname)

\* the filter has returned at least one URL and has rejected a same-host asset
\* whose extension is written in upper case
C7_Witness ==
    /\ FilterReturned
    /\ Len(fnOut.value) >= 1
    /\ <<"h", "t", "t", "p", "s", ":", "/", "/", "c", "o", "n", "f", ".", "e", "x", "a", "m", "p", "l", "e", "/", "l", "o", "g", "o", ".", "P", "N", "G">> \in Range(fnIn.mappedUrls)

\* the mapped URLs the filter is meant to keep, in fragment-stripped normal form
Admissible(startUrl, mappedUrls) ==
    {UrlToString([ParseUrl(m) EXCEPT !.hash = <<>>]) :
       m \in {x \in Range(mappedUrls) :
                LET u == ParseUrl(x)
                IN  /\ u.ok
                    /\ u.protocol \in {<<"h", "t", "t", "p", ":">>, <<"h", "t", "t", "p", "s", ":">>}
                    /\ u.hostname = ParseUrl(startUrl).hostname
                    /\ ~HasAssetExtension(u.pathname)}}

\* C8: filterMappedUrls returns exactly the fragment-stripped normal forms of
\* the mapped URLs that parse, are http(s), are on the start URL's host and are
\* not asset paths, each once; and the conf.example scenario gives exactly
\* https://conf.example/agenda.
C8_FilterExactSet ==
    /\ FilterReturned =>
         /\ Range(fnOut.value) = Admissible(fnIn.startUrl, fnIn.mappedUrls)
         /\ \A i, j \in 1..Len(fnOut.value) : fnOut.value[i] = fnOut.value[j] => i = j
    /\ filterMappedUrls(<<"h", "t", "t", "p", "s", ":", "/", "/", "c", "o", "n", "f", ".", "e", "x", "a", "m", "p", "l", "e", "/">>,
                        <<<<"h", "t", "t", "p", "s", ":", "/", "/", "c", "o", "n", "f", ".", "e", "x", "a", "m", "p", "l", "e", "/", "a", "g", "e", "n", "d", "a">>,
                          <<"h", "t", "t", "p", "s", ":", "/", "/", "c", "o", "n", "f", ".", "e", "x", "a", "m", "p", "l", "e", "/", "s", "t", "y", "l", "e", ".", "c", "s", "s">>,
                          <<"h", "t", "t", "p", "s", ":", "/", "/", "o", "t", "h", "e", "r", ".", "c", "o", "m", "/", "a", "g", "e", "n", "d", "a">>>>)
         = Returned(<<<<"h", "t", "t", "p", "s", ":", "/", "/", "c", "o", "n", "f", ".", "e", "x", "a", "m", "p", "l", "e", "/", "a", "g", "e", "n", "d", "a">>>>)

\* two mapped URLs that differ only in fragment gave one entry
C8_Witness ==
    /\ FilterReturned
    /\ fnIn.mappedUrls = <<<<"h", "t", "t", "p", "s", ":", "/", "/", "c", "o", "n", "f", ".", "e", "x", "a", "m", "p", "l", "e", "/", "a", "g", "e", "n", "d", "a">>, <<"h", "t", "t", "p", "s", ":", "/", "/", "c", "o", "n", "f", ".", "e", "x", "a", "m", "p", "l", "e", "/", "a", "g", "e", "n", "d", "a", "#", "t", "o", "p">>>>
    /\ fnOut.value = <<<<"h", "t", "t", "p", "s", ":", "/", "/", "c", "o", "n", "f", ".", "e", "x", "a", "m", "p", "l", "e", "/", "a", "g", "e", "n", "d", "a">>>>

---------------------------------------------------------------------------
(* C9, C10: identity keys *)

KeysReturned == fnIn.fn = "identityKeys" /\ fnOut.state = "returned"

SameKey(kind) == fnOut.value[kind][1] = fnOut.value[kind][2]

\* a profile URL with its fragment stripped, lowercased
FragmentStrippedLowercased(url) == toLowerCase(SubSeq(url, 1, FirstOf(url, {"#"}) - 1))

BothHaveProfileUrl ==
    /\ fnIn.a.profileUrl # Undefined /\ fnIn.a.profileUrl # <<>>
    /\ fnIn.b.profileUrl # Undefined /\ fnIn.b.profileUrl # <<>>

SameProfileUrl ==
    FragmentStrippedLowercased(fnIn.a.profileUrl) = FragmentStrippedLowercased(fnIn.b.profileUrl)

\* C9: for two appearances that both have a non-empty profileUrl, the identity
\* keys are equal if and only if the profile URLs are equal after stripping the
\* fragment and lowercasing, for the key of the scrape strategies and for the
\* lookup key of persistence.
C9_ProfileKeyIffSameProfileUrl ==
    (KeysReturned /\ BothHaveProfileUrl) =>
        /\ SameKey("route") <=> SameProfileUrl
        /\ SameKey("probe") <=> SameProfileUrl
        /\ SameKey("persist") <=> SameProfileUrl

NeitherHasProfileUrl == fnIn.a.profileUrl = Undefined /\ fnIn.b.profileUrl = Undefined

JaneDoeAcme == Appearance(<<"J", "a", "n", "e", " ", "D", "o", "e">>, <<"A", "c", "m", "e", " ", "I", "n", "c", ".">>, Undefined, <<"h", "t", "t", "p", "s", ":", "/", "/", "c", "o", "n", "f", ".", "e", "x", "a", "m", "p", "l", "e", "/", "a", "g", "e", "n", "d", "a">>)
JaneDoeAcmeVariant ==
    Appearance(<<"j", "a", "n", "e", " ", " ", " ", "d", "o", "e">>, <<"A", "C", "M", "E", ",", " ", "I", "N", "C", ".">>, Undefined, <<"h", "t", "t", "p", "s", ":", "/", "/", "c", "o", "n", "f", ".", "e", "x", "a", "m", "p", "l", "e", "/", "a", "g", "e", "n", "d", "a">>)

\* C10: for two appearances without a profileUrl, the identity keys are equal
\* if and only if the normalized names are equal and the normalized
\* organizations are equal; {Jane Doe, Acme Inc.} and {jane   doe, ACME, INC.}
\* get the same key.
C10_NameOrgKeyIffSameNameAndOrg ==
    /\ (KeysReturned /\ NeitherHasProfileUrl) =>
         /\ SameKey("route") <=>
              /\ normalizeIdentityToken(fnIn.a.name) = normalizeIdentityToken(fnIn.b.name)
              /\ normalizeIdentityToken(fnIn.a.organization)
                   = normalizeIdentityToken(fnIn.b.organization)
         /\ SameKey("persist") <=>
              /\ normalizeIdentityValue(fnIn.a.name) = normalizeIdentityValue(fnIn.b.name)
              /\ normalizeIdentityValue(fnIn.a.organization)
                   = normalizeIdentityValue(fnIn.b.organization)
    /\ speakerAppearanceKey(JaneDoeAcme) = speakerAppearanceKey(JaneDoeAcmeVariant)
    /\ persistLookupKey(JaneDoeAcme) = persistLookupKey(JaneDoeAcmeVariant)

\* the keys of the Jane Doe pair have been computed and are equal
C10_Witness ==
    /\ KeysReturned
    /\ fnIn.a = JaneDoeAcme
    /\ fnIn.b = JaneDoeAcmeVariant
    /\ SameKey("route")
    /\ SameKey("persist")
    /\ fnOut.value.route[1] = <<"n", "a", "m", "e", "o", "r", "g", ":", ":", "j", "a", "n", "e", " ", "d", "o", "e", ":", ":", "a", "c", "m", "e", " ", "i", "n", "c">>

---------------------------------------------------------------------------
(* C5: re-running on an unchanged page set *)

\* call i + 1 repeats call i: same event, same sessions, same appearances
IsRerun(i) ==
    /\ i + 1 <= Len(persistCalls)
    /\ persistCalls[i + 1].input = persistCalls[i].input
    /\ ~persistCalls[i].threw
    /\ ~persistCalls[i + 1].threw

\* C5: when the extraction is run twice in sequence for the same event and the
\* strategies return the same sessions and appearances, uniqueSpeakersFound of
\* the second run is not greater than that of the first run.
C5_RerunDoesNotIncreaseUniqueSpeakers ==
    \A i \in 1..Len(persistCalls) :
        IsRerun(i) =>
            persistCalls[i + 1].uniqueSpeakersFound <= persistCalls[i].uniqueSpeakersFound

\* a re-run on a database that already held speakers, whose first run inserted
\* a speaker with a profile URL and one keyed by name and organization
C5_Witness ==
    /\ Len(persistCalls) = 3
    /\ IsRerun(2)
    /\ persistCalls[1].uniqueSpeakersFound = 1
    /\ persistCalls[2].uniqueSpeakersFound = 3
    /\ persistCalls[3].uniqueSpeakersFound = 3
    /\ persistCalls[2].input.speakerAppearances = <<AppJose, AppJoseNoOrg, AppJaneProfile>>

NoPersistCallThrows == \A i \in 1..Len(persistCalls) : ~persistCalls[i].threw

---------------------------------------------------------------------------
(* C1, C2: cancellation *)

StrategyPcs == {"api_launch", "api_goto", "api_scroll", "api_replay", "api_close",
                "fb_single", "fb_pass"}

\* the signal tripped after the job row was created and before a terminal
\* status was written, while a strategy was running on a page
TrippedInWindow ==
    /\ trip.at \in StrategyPcs
    /\ trip.status \in {"queued", "crawling", "extracting", "saving"}

\* the run ended and none of its calls failed for a reason of its own
EndedWithoutFaults ==
    /\ pc = "done"
    /\ dbFaults = 0
    /\ site.map.ok
    /\ request = GoodRequest

CancellationLine == Line(ExtractionFailedLine, <<CancelledMessage>>)

\* C1: when the cancellation signal trips after the job row has been created
\* and before a terminal status has been written, the job's final status is
\* failed and the persisted log holds the cancellation line, whichever page or
\* pass was running.
C1_TrippedRunEndsFailed ==
    (EndedWithoutFaults /\ TrippedInWindow) =>
        /\ job.status = "failed"
        /\ CancellationLine \in Range(job.log)

\* C2: once the cancellation signal has tripped, the run starts no further
\* strategy invocation and issues no further network call (map, browser
\* navigation) before it finalizes.
C2_NothingIssuedAfterTrip == issued = {}

(* C3: the failed update *)

\* the write that moves the job to failed leaves the progress fields alone
FailedWriteKeepsProgress ==
    (job'.status = "failed" /\ job.status # "failed") =>
        /\ job'.counters = job.counters
        /\ job'.mappedUrls = job.mappedUrls
        /\ job'.filteredUrls = job.filteredUrls
        /\ job'.processedUrls = job.processedUrls

\* the run was cancelled by the check at the head of the page loop
EndedCancelled ==
    /\ pc = "done"
    /\ job.status = "failed"
    /\ job.error = CancelledMessage

\* C3: the update that moves a job to failed changes only status, logLines and
\* error; counters, mappedUrls, filteredUrls and processedUrls keep the values
\* of the last snapshot, so after a cancelled run the persisted processedUrls
\* is the list of the pages whose processing completed before the check tripped.
C3_FailedUpdateKeepsProgress ==
    /\ [][FailedWriteKeepsProgress]_vars
    /\ [](EndedCancelled => job.processedUrls = run.processedUrls)

\* a run cancelled after its first page was processed and its snapshot written
C3_Witness ==
    /\ EndedCancelled
    /\ job.processedUrls = <<AgendaUrl>>
    /\ job.counters.pagesProcessed = 1
    /\ Len(run.targetedSessionUrls) = 2

(* C4: the statuses written for one job *)

Step(a, b) ==
    \/ a = "queued" /\ b = "crawling"
    \/ a = "crawling" /\ b = "extracting"
    \/ a = "extracting" /\ b \in {"extracting", "saving"}
    \/ a = "saving" /\ b = "complete"
    \/ a \in {"queued", "crawling", "extracting", "saving"} /\ b = "failed"

\* C4: the statuses persisted for one job are queued, then crawling, then
\* extracting one or more times, then saving, then complete, possibly cut short
\* at a non-terminal point by one transition to failed; no status is followed
\* by an earlier one and no other value is written.
C4_StatusesFollowLifecycle ==
    /\ Len(jobWrites) > 0 => jobWrites[1] = "queued"
    /\ \A i \in 1..(Len(jobWrites) - 1) : Step(jobWrites[i], jobWrites[i + 1])
    /\ job.status = IF jobWrites = <<>> THEN "none" ELSE jobWrites[Len(jobWrites)]

\* a run over two pages that completed, and the job row shows it
C4_Witness ==
    /\ pc = "done"
    /\ jobWrites = <<"queued", "crawling", "extracting", "extracting", "extracting",
                     "saving", "complete">>

(* C6: the plateau stop *)

CountedLines == {i \in 1..Len(logLines) : logLines[i][1] = PassCountedLine}

\* the lines tell that passes 1 to 3 each added a speaker, that no later pass
\* added one, and that no pass failed
YieldsNewOnPasses1To3AndNoneAfterwards ==
    /\ \A p \in 1..3 : \E i \in CountedLines : logLines[i][2] = p /\ logLines[i][4] > 0
    /\ \A i \in CountedLines : logLines[i][2] >= 4 => logLines[i][4] = 0
    /\ \A i \in 1..Len(logLines) : logLines[i][1] # PassFailedLine

\* C6: when the scrape yields new unique speakers on passes 1 to 3 and none
\* afterwards, the pass loop stops no later than pass 5 and returns
\* stopReason "plateau_no_growth".
C6_PlateauStopsByPassFive ==
    YieldsNewOnPasses1To3AndNoneAfterwards =>
        /\ fb.passIndex <= 5
        /\ pc = "strategy_returned" => /\ run.result.stopReason = "plateau_no_growth"
                                       /\ fb.passIndex = 5

\* the loop returned three speakers after two passes that added none
C6_Witness ==
    /\ pc = "strategy_returned"
    /\ YieldsNewOnPasses1To3AndNoneAfterwards
    /\ fb.passIndex = 5
    /\ Len(run.result.appearances) = 3
    /\ run.result.stopReason = "plateau_no_growth"

---------------------------------------------------------------------------
(* C11: the in-run keys against the persistence key *)

\* C11: for every pair of appearances, the in-run identity key of the scrape
\* strategies (speakerAppearanceKey of the route, appearanceKey of the network
\* probe) is equal for the pair exactly when the lookup key of
\* persistExtractedConferenceDataInDb is equal for the pair.
C11_InRunKeyIffPersistKey ==
    KeysReturned =>
        /\ SameKey("route") <=> SameKey("persist")
        /\ SameKey("probe") <=> SameKey("persist")

---------------------------------------------------------------------------
(* C12: the classification table *)

ModeReturned == fnIn.fn = "pickExtractionMode" /\ fnOut.state = "returned"

\* the input was built with a scheme, so new URL accepts it
ModeUrlParses == fnIn.base # <<"c", "o", "n", "f", ".", "e", "x", "a", "m", "p", "l", "e">>

\* a keyword of the list occurs in the lowercased path and query of the input
ModeHasKeyword(keywords) ==
    \E keyword \in keywords : includes(toLowerCase(fnIn.path \o fnIn.query), keyword)

ModeSpeakerish == ModeUrlParses /\ ModeHasKeyword(SPEAKER_PATH_KEYWORDS)
ModeSessionish == ModeUrlParses /\ ModeHasKeyword(SESSION_PATH_KEYWORDS)

\* C12: pickExtractionMode is total and follows the table: only a speaker-ish
\* keyword in the lowercased path+query gives (speakerDirectory, not
\* ambiguous); only a session-ish keyword gives (session, not ambiguous); both,
\* neither or an unparseable URL gives (session, ambiguous).  /speakers/keynotes
\* is (speakerDirectory, not ambiguous), /info is (session, ambiguous), and
\* ambiguous never comes with speakerDirectory.
C12_ModeFollowsTable ==
    /\ ModeReturned =>
         /\ fnOut.value =
              IF ModeSpeakerish /\ ~ModeSessionish
              THEN [mode |-> "speakerDirectory", isAmbiguous |-> FALSE]
              ELSE IF ModeSessionish /\ ~ModeSpeakerish
              THEN [mode |-> "session", isAmbiguous |-> FALSE]
              ELSE [mode |-> "session", isAmbiguous |-> TRUE]
         /\ ~(fnOut.value.mode = "speakerDirectory" /\ fnOut.value.isAmbiguous)
    /\ pickExtractionMode(<<"h", "t", "t", "p", "s", ":", "/", "/", "c", "o", "n", "f", ".", "e", "x", "a", "m", "p", "l", "e", "/", "s", "p", "e", "a", "k", "e", "r", "s", "/", "k", "e", "y", "n", "o", "t", "e", "s">>)
         = [mode |-> "speakerDirectory", isAmbiguous |-> FALSE]
    /\ pickExtractionMode(<<"h", "t", "t", "p", "s", ":", "/", "/", "c", "o", "n", "f", ".", "e", "x", "a", "m", "p", "l", "e", "/", "i", "n", "f", "o">>)
         = [mode |-> "session", isAmbiguous |-> TRUE]

\* /speakers/keynotes has been classified as a speaker directory
C12_Witness ==
    /\ ModeReturned
    /\ fnIn.url = <<"h", "t", "t", "p", "s", ":", "/", "/", "c", "o", "n", "f", ".", "e", "x", "a", "m", "p", "l", "e", "/", "s", "p", "e", "a", "k", "e", "r", "s", "/", "k", "e", "y", "n", "o", "t", "e", "s">>
    /\ fnOut.value = [mode |-> "speakerDirectory", isAmbiguous |-> FALSE]

---------------------------------------------------------------------------
(* C13: the order of the strategies on a page *)

RunningStrategyLines ==
    {i \in 1..Len(logLines) :
        logLines[i][1] = "Running strategy ${name} for ${sessionUrl} (score=${score})."}

StrategyCompletedLines ==
    {i \in 1..Len(logLines) :
        logLines[i][1] = "Strategy ${name} completed for ${sessionUrl} (stopReason=${stopReason}, appearances=${n})."}

\* the names of the strategies run so far, in the order they were started
RECURSIVE StrategiesRunFrom(_)
StrategiesRunFrom(i) ==
    IF i > Len(logLines) THEN <<>>
    ELSE IF i \in RunningStrategyLines THEN <<logLines[i][2]>> \o StrategiesRunFrom(i + 1)
    ELSE StrategiesRunFrom(i + 1)

\* the strategy's result has no session and no appearance, or is null
NothingExtracted(result) ==
    result.isNull \/ (Len(result.appearances) = 0 /\ Len(result.sessions) = 0)

\* C13: for each candidate page the strategies are invoked one at a time in
\* descending score order, the network probe before the Structured-Content
\* Scrape for every classification; the first strategy whose result has a
\* session or an appearance is accepted and no later strategy is run for the
\* page; the Structured-Content Scrape runs for a page only when the network
\* probe returned null, an empty result or an error.
C13_StrategiesInScoreOrder ==
    /\ \A i \in RunningStrategyLines, j \in RunningStrategyLines :
         (i < j /\ logLines[i][3] = logLines[j][3]) =>
             /\ logLines[i][2] = "apiProbe" /\ logLines[j][2] = "firecrawlFallback"
             /\ logLines[i][4] > logLines[j][4]
             /\ \A k \in RunningStrategyLines : logLines[k][3] = logLines[i][3] => k \in {i, j}
    /\ \A i \in RunningStrategyLines :
         logLines[i][2] = "firecrawlFallback" =>
             \E j \in RunningStrategyLines : j < i /\ logLines[j][3] = logLines[i][3]
    /\ \A c \in StrategyCompletedLines : \A i \in RunningStrategyLines :
         logLines[i][3] = logLines[c][3] => i < c
    /\ pc \in {"call_fallback", "fb_single", "fb_pass_begin", "fb_pass"} =>
         /\ run.orderedStrategies[run.strategyIndex].name = "firecrawlFallback"
         /\ run.strategyIndex = 2
         /\ NothingExtracted(run.result)
         /\ api.pageUrl = sessionUrlOf(run)
         /\ api.outcome = "throw" \/ NothingExtracted(api.result)
    /\ \A c \in StrategyCompletedLines :
         \E i \in RunningStrategyLines :
             /\ logLines[i][3] = logLines[c][3]
             /\ logLines[i][2] = logLines[c][2]
             /\ \A j \in RunningStrategyLines : logLines[j][3] = logLines[c][3] => j <= i

\* a run of two pages: the scrape read the agenda after the probe could not
\* open it, and the probe's result for the directory was accepted at once
C13_Witness ==
    /\ pc = "done"
    /\ job.status = "complete"
    /\ run.processedUrls = <<AgendaUrl, SpeakersUrl>>
    /\ StrategiesRunFrom(1) = <<"apiProbe", "firecrawlFallback", "apiProbe">>

---------------------------------------------------------------------------
(* C14: a page that fails *)

ModeSelectedLines ==
    {i \in 1..Len(logLines) :
        logLines[i][1] = "Mode selected for ${sessionUrl}: ${mode}${ambiguous}."}

\* the per-page catch records the failure and goes on to the page snapshot
PageFailureIsRecorded ==
    (pc = "page_catch" /\ pc' # "page_catch") =>
        /\ pc' = "update_page"
        /\ run'.scrapeErrors = Append(run.scrapeErrors, <<sessionUrlOf(run), run.message>>)
        /\ Len(run'.scrapeArtifacts) = Len(run.scrapeArtifacts) + 1
        /\ SubSeq(run'.scrapeArtifacts, 1, Len(run.scrapeArtifacts)) = run.scrapeArtifacts
        /\ \E artifact \in {run'.scrapeArtifacts[Len(run'.scrapeArtifacts)]} :
             /\ artifact.url = sessionUrlOf(run)
             /\ ~artifact.success
             /\ artifact.error = run.message
        /\ run'.processedUrls = run.processedUrls
        /\ job.status = "extracting" /\ job' = job

\* the snapshot written after a page keeps the job in extracting and the loop
\* moves to the next page
SnapshotMovesOn ==
    (pc = "update_page" /\ pc' = "page_begin") =>
        /\ job'.status = "extracting"
        /\ run'.pageIndex = run.pageIndex + 1

\* the run ended, no database call failed and the signal never tripped
EndedUndisturbed == EndedWithoutFaults /\ ~aborted

\* C14: an error or an exhausted strategy list on one candidate page never ends
\* the run: the page is recorded as a failure (one entry in the scrape-error
\* count and one failed artifact with the error message), the job stays in
\* extracting, and the next targeted page is attempted.
C14_PageFailureIsNotFatal ==
    /\ [][PageFailureIsRecorded /\ SnapshotMovesOn]_vars
    /\ [](pc \in {"page_catch", "update_page"} => job.status = "extracting")
    /\ [](EndedUndisturbed =>
            /\ job.status = "complete"
            /\ Cardinality(ModeSelectedLines) = Len(run.targetedSessionUrls)
            /\ Len(run.processedUrls) + Len(run.scrapeErrors) = Len(run.targetedSessionUrls))

\* a run whose first page threw and whose second page exhausted the
\* strategies went on to read the third page and completed
C14_Witness ==
    /\ pc = "done"
    /\ job.status = "complete"
    /\ run.scrapeErrors = <<<<AgendaUrl, ScrapeFailedMessage>>,
                            <<ScheduleUrl, EmptyResultsMessage>>>>
    /\ run.processedUrls = <<SpeakersUrl>>
    /\ Len(run.scrapeArtifacts) = 3

---------------------------------------------------------------------------
(* C15: the artifacts of a page *)

\* C15: every strategy invocation and every scrape pass performed during a
\* run, successful, empty, failed or interrupted, contributes its artifact to
\* the job's artifact list that is handed to persistence; no artifact produced
\* during the run is discarded, including those of a strategy whose result was
\* not accepted.  Stated when the page's snapshot is issued: the artifacts of
\* the page's last strategy result, and of the passes the scrape made on the
\* page, are in the list.
C15_EveryArtifactIsKept ==
    pc = "update_page" =>
        /\ \A artifact \in Range(run.result.artifacts) :
             artifact \in Range(run.scrapeArtifacts)
        /\ fb.sessionUrl = sessionUrlOf(run) =>
             \A artifact \in Range(fb.artifacts) : artifact \in Range(run.scrapeArtifacts)

---------------------------------------------------------------------------
(* C16: speaker rows and identity buckets *)

SpeakerRowsOf(eventId) == {i \in 1..Len(db.speakers) : db.speakers[i].event_id = eventId}

\* organizations(normalized_name) of the speaker row, empty without an organization
OrgNormalizedOfRow(i) ==
    IF db.speakers[i].organization_id = 0 THEN <<>>
    ELSE db.organizations[db.speakers[i].organization_id].normalized_name

\* the keys of the call's identity map are distinct and each holds the id of
\* one speaker row of the call's event
IdentityMapIsFunction(call) ==
    /\ \A m \in 1..Len(call.speakerIdByIdentity), n \in 1..Len(call.speakerIdByIdentity) :
         call.speakerIdByIdentity[m].key = call.speakerIdByIdentity[n].key => m = n
    /\ \A m \in 1..Len(call.speakerIdByIdentity) :
         call.speakerIdByIdentity[m].value \in SpeakerRowsOf(call.input.eventId)

\* C16: after any sequence of sequentially executed
\* persistExtractedConferenceDataInDb calls, no two speaker rows of an event
\* share the same non-null profile_url, no two speaker rows without profile_url
\* share the same (normalizedName, normalizedOrganizationName), and every
\* identity key seen in a call maps to exactly one speaker id.
C16_SpeakerRowsAreUniquePerIdentity ==
    /\ \A i \in 1..Len(db.speakers), j \in 1..Len(db.speakers) :
         (i # j /\ db.speakers[i].event_id = db.speakers[j].event_id) =>
             /\ db.speakers[i].profile_url # Undefined =>
                  db.speakers[i].profile_url # db.speakers[j].profile_url
             /\ (db.speakers[i].profile_url = Undefined
                   /\ db.speakers[j].profile_url = Undefined) =>
                  <<db.speakers[i].normalized_name, OrgNormalizedOfRow(i)>>
                      # <<db.speakers[j].normalized_name, OrgNormalizedOfRow(j)>>
    /\ \A c \in 1..Len(persistCalls) : IdentityMapIsFunction(persistCalls[c])

\* three calls for one event left three speaker rows, with and without a
\* profile URL, and the last call found all its identities among them
C16_Witness ==
    /\ Len(persistCalls) = 3
    /\ \A c \in 1..3 : persistCalls[c].input.eventId = "e1" /\ ~persistCalls[c].threw
    /\ Cardinality(SpeakerRowsOf("e1")) = 3
    /\ \E i \in SpeakerRowsOf("e1") : db.speakers[i].profile_url = JaneProfile
    /\ \E i \in SpeakerRowsOf("e1") : db.speakers[i].profile_url = Undefined
    /\ persistCalls[1].input = persistCalls[3].input
    /\ Len(persistCalls[3].speakerIdByIdentity) = 2

---------------------------------------------------------------------------
(* C17: the links of one call *)

SamePair(a, b) == a.sessionId = b.sessionId /\ a.speakerId = b.speakerId

\* the row of the table that links the session and the speaker
LinkOf(table, row) ==
    {i \in 1..Len(table) :
        table[i].session_id = row.sessionId /\ table[i].speaker_id = row.speakerId}

\* C17: within one persist call the session-speaker links are unique per
\* (sessionId, speakerId), and when several appearances map to the same
\* (sessionId, speakerId) with different roles, the role written is that of
\* the last such appearance.
C17_LastRoleWinsWithinCall ==
    \A c \in 1..Len(persistCalls) :
        ~persistCalls[c].threw =>
            \A k \in 1..Len(persistCalls[c].rowsForSessionLink) :
                /\ Cardinality(LinkOf(persistCalls[c].linksAfter,
                                      persistCalls[c].rowsForSessionLink[k])) = 1
                /\ (\A later \in (k + 1)..Len(persistCalls[c].rowsForSessionLink) :
                        ~SamePair(persistCalls[c].rowsForSessionLink[later],
                                  persistCalls[c].rowsForSessionLink[k])) =>
                     \A i \in LinkOf(persistCalls[c].linksAfter,
                                     persistCalls[c].rowsForSessionLink[k]) :
                         persistCalls[c].linksAfter[i].role
                             = persistCalls[c].rowsForSessionLink[k].role

---------------------------------------------------------------------------
(* C18: appearances on a page that is not a session of the call *)

\* the appearance's sessionUrl is the URL of a session handed to the call
ResolvesInCall(call, appearance) ==
    \E s \in Range(call.input.sessions) :
        /\ normalizeUrlValue(s.url) # Undefined
        /\ normalizeUrlValue(s.url) = normalizeUrlValue(appearance.sessionUrl)

ResolvedAppearances(call) ==
    {k \in 1..Len(call.input.speakerAppearances) :
        ResolvesInCall(call, call.input.speakerAppearances[k])}

\* the session rows with the id
SessionRowsWithId(id) == {i \in 1..Len(db.sessions) : db.sessions[i].id = id}

\* the call was handed an appearance whose sessionUrl does not resolve
HasUnresolved(call) ==
    Cardinality(ResolvedAppearances(call)) < Len(call.input.speakerAppearances)

\* C18: an appearance whose sessionUrl does not resolve to a session upserted
\* in the same persist call is dropped without raising an error: it creates no
\* speaker and no link and is not counted in speakerAppearancesFound, and every
\* link written references exactly one resolved session.  Stated of the call
\* that has just returned.
C18_UnresolvedAppearanceIsDropped ==
    persistCalls # <<>> =>
        \E call \in {persistCalls[Len(persistCalls)]} :
            /\ ~call.threw
            /\ call.speakerAppearancesFound = Cardinality(ResolvedAppearances(call))
            /\ Len(call.rowsForSessionLink) = Cardinality(ResolvedAppearances(call))
            /\ ResolvedAppearances(call) = {} =>
                 /\ call.speakersAfter = call.speakersBefore
                 /\ call.linksAfter = call.linksBefore
            /\ \A i \in (call.speakersBefore + 1)..call.speakersAfter :
                 \E k \in ResolvedAppearances(call) :
                     db.speakers[i].normalized_name
                         = normalizeIdentityValue(call.input.speakerAppearances[k].name)
            /\ \A k \in 1..Len(call.rowsForSessionLink) :
                 /\ \E m \in 1..Len(call.sessionIdByUrl) :
                      call.sessionIdByUrl[m].value = call.rowsForSessionLink[k].sessionId
                 /\ Cardinality(SessionRowsWithId(call.rowsForSessionLink[k].sessionId)) = 1
            /\ \A i \in 1..Len(call.linksAfter) :
                 Cardinality(SessionRowsWithId(call.linksAfter[i].session_id)) = 1

\* a call was handed a speaker of a page that is no session of the call, and
\* wrote the links of its two other appearances only
C18_Witness ==
    /\ Len(persistCalls) >= 1
    /\ persistCalls[1].input.speakerAppearances = <<AppJose, AppJoseNoOrg, AppJaneProfile>>
    /\ HasUnresolved(persistCalls[1])
    /\ persistCalls[1].speakerAppearancesFound = 2
    /\ Len(persistCalls[1].linksAfter) = 2
    /\ persistCalls[1].speakersAfter = 2

---------------------------------------------------------------------------
(* C19: requests without an event or a start URL *)

\* the body is JSON and its eventId or startUrl is missing or blank
MissingOrBlank ==
    /\ request.valid
    /\ \/ request.body = "null"
       \/ trimmedOrEmpty(request.eventId) = <<>>
       \/ trimmedOrEmpty(request.startUrl) = <<>>

\* C19: a request whose eventId or startUrl is missing or blank after trimming
\* is answered with status 400 and an error body, and no job row is created and
\* no mapping, scrape or persistence call is made.
C19_MissingInputAnswered400 ==
    MissingOrBlank =>
        /\ pc \in {"request_json", "done"}
        /\ pc = "done" => response.status = 400 /\ response.error # Null
        /\ job = NoJob /\ jobWrites = <<>>
        /\ logLines = <<>>
        /\ run.mapped = RunLocals.mapped
        /\ run.scrapeArtifacts = <<>>
        /\ db = EmptyDb

---------------------------------------------------------------------------
(* C20: the persisted log *)

\* the last n lines of the log, in order
MostRecentLines(lines, n) ==
    [i \in 1..(IF Len(lines) > n THEN n ELSE Len(lines)) |->
        lines[i + (IF Len(lines) > n THEN Len(lines) - n ELSE 0)]]

\* a write of the job row stores the most recent lines of the log as the
\* write finds it
WriteStoresMostRecentLines == job' # job => job'.log = MostRecentLines(logLines, 20)

\* C20: in every state of a job row, the persisted log holds at most 20 lines
\* and they are the most recent lines of the run's in-memory log at the moment
\* of the write, in order.
C20_PersistedLogIsTailOfLog ==
    /\ [](job # NoJob => Len(job.log) <= 20)
    /\ [][WriteStoresMostRecentLines]_vars

\* a run of three pages completed with more than 20 lines logged, and the
\* job row holds the last 20
C20_Witness ==
    /\ pc = "done"
    /\ job.status = "complete"
    /\ Len(logLines) > 20
    /\ Len(job.log) = 20
    /\ job.log[20] = logLines[Len(logLines)]
    /\ job.log[1] = logLines[Len(logLines) - 19]

---------------------------------------------------------------------------
(* C21: the snapshots of the job row *)

PageAttemptPcs ==
    StrategyPcs \cup {"strategy_next", "api_scroll_begin", "api_replay_begin", "api_finish",
                      "call_fallback", "fb_pass_begin", "strategy_returned", "page_catch",
                      "update_page"}

\* the snapshots written with status extracting
ExtractingWrites == Cardinality({i \in 1..Len(jobWrites) : jobWrites[i] = "extracting"})

\* a change of the persisted status is one write, and a write is one snapshot
OneWritePerTransition ==
    job' # job => jobWrites' = Append(jobWrites, job'.status)

\* C21: after every candidate page attempt, successful or failed, and at every
\* status transition, exactly one job snapshot (counters, log, processedUrls)
\* is persisted, and it is persisted before the next page attempt begins.
C21_OneSnapshotPerPageAndTransition ==
    /\ [][OneWritePerTransition]_vars
    /\ [](pc \in PageAttemptPcs => ExtractingWrites = Cardinality(ModeSelectedLines))
    /\ [](pc = "page_begin" =>
            /\ ExtractingWrites = Cardinality(ModeSelectedLines) + 1
            /\ job.status = "extracting"
            /\ job.processedUrls = run.processedUrls
            /\ job.counters.pagesProcessed = Len(run.processedUrls)
            /\ job.counters.speakerAppearancesFound = Len(run.extractedAppearances)
            /\ job.log = MostRecentLines(logLines, 20))

\* three pages were attempted, two of them failed, and the row was written
\* once for each page between the transition to extracting and the one to saving
C21_Witness ==
    /\ pc = "done"
    /\ Len(run.scrapeErrors) = 2
    /\ jobWrites = <<"queued", "crawling", "extracting", "extracting", "extracting",
                     "extracting", "saving", "complete">>
    /\ job.counters.pagesProcessed = 1

---------------------------------------------------------------------------
(* C22: the plateau with nothing accumulated *)

\* the pass was counted and added no new unique appearance
AddedNone(p) == \E i \in CountedLines : logLines[i][2] = p /\ logLines[i][4] = 0

\* the pass loop has stopped at pass p with a plateau
StoppedOnPlateauAt(p) ==
    /\ fb.passIndex = p
    /\ fb.stopReason = "plateau_no_growth"
    /\ pc = "strategy_returned"
    /\ run.result.stopReason = "plateau_no_growth"

\* C22: the Structured-Content Scrape pass loop stops with a plateau as soon as
\* at least 4 passes have run and the 2 most recent consecutive passes each
\* added zero new unique appearances, whatever the number of appearances
\* accumulated so far (including zero).
C22_PlateauStopsWhateverAccumulated ==
    \A p \in 4..MAX_SPEAKER_PASSES :
        (AddedNone(p - 1) /\ AddedNone(p)) => StoppedOnPlateauAt(p)

---------------------------------------------------------------------------
(* C23: the failures that stop the pass loop *)

PassFailedAt(p) ==
    \E i \in 1..Len(logLines) : logLines[i][1] = PassFailedLine /\ logLines[i][2] = p

TwoConsecutivePassesFailed ==
    \E p \in 2..MAX_SPEAKER_PASSES : PassFailedAt(p - 1) /\ PassFailedAt(p)

\* C23: the Structured-Content Scrape pass loop stops with stopReason
\* max_pass_failures exactly when 2 consecutive passes have failed; two failed
\* passes separated by a successful pass do not stop the loop.
C23_StopsOnConsecutiveFailuresOnly ==
    /\ \A p \in 2..MAX_SPEAKER_PASSES :
         (PassFailedAt(p - 1) /\ PassFailedAt(p)) =>
             fb.passIndex = p /\ fb.stopReason = "max_pass_failures"
    /\ fb.stopReason = "max_pass_failures" => TwoConsecutivePassesFailed

---------------------------------------------------------------------------
(* C24: the pass loop ends *)

PassStartedLines ==
    {i \in 1..Len(logLines) :
        logLines[i][1] = "Pass ${passIndex} (${passMode}) started for ${sessionUrl}."}

\* the strategy returned from the pass loop
LoopReturned == pc = "strategy_returned" /\ shouldRunSpeakerPassLoop(fb.modeSelection)

\* the strategy is over: it returned, or it threw into the page's catch
StrategyOver == pc \in {"strategy_returned", "page_catch"}

\* C24: for every behaviour of the scrape source (any mix of growing,
\* non-growing and failing passes), the Structured-Content Scrape pass loop
\* terminates after at most 8 passes, and its stopReason is one of
\* plateau_no_growth, max_pass_failures or max_passes_reached, the last one
\* exactly when all 8 passes ran without meeting a stop condition.
C24_PassLoopTerminatesWithinEight ==
    /\ <>StrategyOver
    /\ [](Cardinality(PassStartedLines) <= 8 /\ fb.passIndex <= 9)
    /\ [](LoopReturned =>
            /\ run.result.stopReason
                 \in {"plateau_no_growth", "max_pass_failures", "max_passes_reached"}
            /\ run.result.stopReason = "max_passes_reached" <=>
                 /\ Cardinality(PassStartedLines) = 8
                 /\ fb.passIndex = 9)

\* all 8 passes ran, one of them failed and none met a stop condition
C24_Witness ==
    /\ LoopReturned
    /\ Cardinality(PassStartedLines) = 8
    /\ run.result.stopReason = "max_passes_reached"
    /\ fb.failedPasses = 1
    /\ Len(run.result.appearances) = 2

---------------------------------------------------------------------------
(* C25: the scrape of a plain session page *)

PlainSession == run.modeSelection = [mode |-> "session", isAmbiguous |-> FALSE]

\* the first pass found no appearance on a page that names speakers
FirstPassShowsSignalsOnly ==
    /\ Len(run.result.artifacts) >= 1
    /\ run.result.artifacts[1].success
    /\ hasSpeakerSignals(run.result.artifacts[1])
    /\ \/ Len(run.result.appearances) = 0
       \/ Len(run.result.artifacts) > 1

\* C25: for a page classified as plain (non-ambiguous) Session, the
\* Structured-Content Scrape performs one pass in session mode, and when that
\* pass yields zero appearances while its markdown, HTML or JSON contains a
\* speaker-signal keyword it performs exactly one more pass in SpeakerDirectory
\* mode; otherwise it performs no further pass.
C25_PlainSessionRetriesOnSignals ==
    (pc = "strategy_returned" /\ PlainSession) =>
        /\ run.result.artifacts[1].extractionMode = "session"
        /\ IF FirstPassShowsSignalsOnly
           THEN /\ Len(run.result.artifacts) = 2
                /\ run.result.artifacts[2].extractionMode = "speakerDirectory"
           ELSE Len(run.result.artifacts) = 1

---------------------------------------------------------------------------
(* C26: the scrape of an ambiguous session page *)

AmbiguousSession == fb.modeSelection = [mode |-> "session", isAmbiguous |-> TRUE]

\* pass 1 succeeded in session mode and its artifact names no speaker keyword
FirstPassWithoutSignals ==
    /\ Len(fb.artifacts) >= 1
    /\ fb.artifacts[1].passIndex = 1
    /\ fb.artifacts[1].extractionMode = "session"
    /\ ~hasSpeakerSignals(fb.artifacts[1])

\* C26: for a page classified as ambiguous Session, the Structured-Content
\* Scrape runs further iterative passes after the first session-mode pass only
\* if that first pass shows speaker signals; without speaker signals it stops
\* after the first pass.
C26_AmbiguousSessionLoopsOnSignalsOnly ==
    (AmbiguousSession /\ FirstPassWithoutSignals) =>
        \A i \in PassStartedLines : logLines[i][2] = 1

---------------------------------------------------------------------------
(* C27: what ends a run before complete *)

\* the job row was turned to failed by the outer catch
JobFailed == Len(jobWrites) >= 2 /\ jobWrites[Len(jobWrites)] = "failed"

\* the status the job row had when the run failed
StatusBeforeFailure == jobWrites[Len(jobWrites) - 1]

\* C27: the only events that end a run before it reaches complete are
\* cancellation and failures of the setup or mapping phase; a failure in any
\* later step of the run (job snapshot write, artifact persistence, entity
\* persistence) does not turn the job to failed.
C27_OnlyCancelAndSetupAreFatal ==
    JobFailed =>
        \/ run.message = CancelledMessage
        \/ StatusBeforeFailure \in {"queued", "crawling"}

---------------------------------------------------------------------------
(* C28: the pagination replay of the probe *)

\* the replay requests issued so far: the index starts at 1 and steps before each request
ReplaysIssued == IF api.index = 0 THEN 0 ELSE api.index - 1

\* a replay returned: the count of replays that added none steps or is reset
ReplayCounted ==
    (pc = "api_replay" /\ pc' = "api_replay_begin") =>
        api'.stagnantPasses =
            IF Len(api'.unique) > Len(api.unique) THEN 0 ELSE api.stagnantPasses + 1

\* the head of the loop: it ends on the cap, on two replays without growth,
\* or on the signal, and on nothing else
ReplayLoopHead ==
    (pc = "api_replay_begin" /\ pc' # pc) =>
        /\ pc' \in {"api_replay", "api_finish"}
        /\ pc' = "api_finish" <=>
             \/ ReplaysIssued >= 50
             \/ api.stagnantPasses >= 2
             \/ aborted

\* C28: the Network-Response Probe's pagination replay issues at most 50
\* replay requests and stops as soon as 2 consecutive replays have added zero
\* new unique appearances (a non-success response or a failed request counts
\* as adding none) or the cancellation signal is set; a replay that adds at
\* least one new appearance resets the count.
C28_ReplayStopsOnCapStagnationOrCancel ==
    /\ [](ReplaysIssued <= 50 /\ api.stagnantPasses <= 2)
    /\ [][ReplayCounted /\ ReplayLoopHead]_vars

\* all 50 replays were issued: every other one added a speaker, so the count
\* never reached 2, and the signal was never set
C28_Witness ==
    /\ pc = "api_finish"
    /\ ReplaysIssued = 50
    /\ api.stagnantPasses = 1
    /\ ~aborted
    /\ Len(api.unique) = 26
    /\ api.stopReason = "api_pagination_exhausted"

---------------------------------------------------------------------------
(* C29: what the probe returns *)

ProbeReturned == api.outcome = "return"

\* a response, intercepted or replayed, from which a speaker was captured
CapturedSome == \E i \in 1..Len(api.captures) : Len(api.captures[i].candidates) > 0

\* C29: the Network-Response Probe returns null exactly when no speaker
\* appearance was captured from any intercepted or replayed response, and
\* whenever it returns a result that result has at least one appearance and
\* exactly one session whose url is the page URL that every returned
\* appearance references.
C29_NullIffNothingCaptured ==
    ProbeReturned =>
        /\ api.result.isNull <=> ~CapturedSome
        /\ ~api.result.isNull =>
             /\ Len(api.result.appearances) >= 1
             /\ Len(api.result.sessions) = 1
             /\ api.result.sessions[1].url = api.pageUrl
             /\ \A i \in 1..Len(api.result.appearances) :
                    api.result.appearances[i].sessionUrl = api.pageUrl

\* a result built from an intercepted response and two replays that each added a speaker
C29_Witness ==
    /\ ProbeReturned
    /\ ~api.result.isNull
    /\ Len(api.result.appearances) = 3
    /\ Len(api.captures) >= 3
    /\ api.result.sessions = <<[title |-> <<"S", "p", "e", "a", "k", "e", "r", " ", "D", "i", "r", "e", "c", "t", "o", "r", "y">>, url |-> SpeakersUrl]>>

---------------------------------------------------------------------------
(* C30: the speaker-like test *)

SpeakerLikeReturned == fnIn.fn = "isSpeakerLikeObject" /\ fnOut.state = "returned"

\* the property holds a string with a character that is not white space
HoldsText(key) == fnIn.value[key].type = "string" /\ Len(trim(fnIn.value[key].text)) > 0

\* the id is a string or a number
HoldsId == fnIn.value["id"].type \in {"string", "number"}

\* C30: a JSON object is treated as speaker-like exactly when one of its
\* name-like fields (name, fullName, displayName) holds a non-empty string and
\* at least one of its organization, title, profile-url or id fields holds a
\* usable value; an empty or non-string value in one of these fields does not
\* hide a usable value in another.
C30_SpeakerLikeIffNameAndSupport ==
    SpeakerLikeReturned =>
        fnOut.value = /\ \E key \in NameKeys : HoldsText(key)
                      /\ \/ \E key \in SupportKeys : HoldsText(key)
                         \/ HoldsId

---------------------------------------------------------------------------
(* C31: the listener's writes and the order of the responses *)

\* what a write for the candidate stores
StoredFor(candidate) ==
    [name |-> candidate.name, organization |-> candidate.organization,
     title |-> candidate.title, profileUrl |-> candidate.profileUrl,
     role |-> candidate.role, sessionUrl |-> api.pageUrl]

\* the intercepted responses the listener has handled
HandledCaptures == {PageOf(api.pageUrl).captures[i] : i \in api.delivered}

\* C31: within one page's Network-Response Probe, for every interleaving of
\* the response-listener callbacks with the scroll passes and the pagination
\* replays, the final map of appearances by identity key is the same: every
\* write for a key stores the same value, so the returned appearances do not
\* depend on the order in which responses arrive or complete.
C31_ProbeResultIndependentOfArrival ==
    ProbeReturned =>
        \A capture \in HandledCaptures :
            \A k \in 1..Len(capture.candidates) :
                MapGet(api.unique, appearanceKey(capture.candidates[k]))
                    = StoredFor(capture.candidates[k])

---------------------------------------------------------------------------
(* C32: the targeted page list *)

TargetReturned == fnIn.fn = "targetedSessionUrlsOf" /\ fnOut.state = "returned"

\* the path and query of the URL contain a coarse keyword
HasCoarseKeyword(url) == someIncludes(pathAndSearch(ParseUrl(url)), SESSION_URL_KEYWORDS)

\* the first up-to-20 entries of the list
FirstTwenty(urls) == SubSeq(urls, 1, IF Len(urls) < 20 THEN Len(urls) ELSE 20)

\* C32: the targeted page list is a duplicate-free sublist of the filtered
\* URLs of length at most 20: it is the first up-to-20 filtered URLs, in
\* order, whose path+query contains a coarse keyword, or, when no filtered URL
\* contains one, the first up-to-20 filtered URLs; it is empty only when the
\* filtered list is empty.
C32_TargetsAreFirstTwentyLikely ==
    TargetReturned =>
        /\ Len(fnOut.value) <= 20
        /\ \A i, j \in 1..Len(fnOut.value) : fnOut.value[i] = fnOut.value[j] => i = j
        /\ fnOut.value =
             IF \E i \in 1..Len(fnIn.filteredUrls) : HasCoarseKeyword(fnIn.filteredUrls[i])
             THEN FirstTwenty(SelectSeq(fnIn.filteredUrls, HasCoarseKeyword))
             ELSE FirstTwenty(fnIn.filteredUrls)
        /\ fnOut.value = <<>> => fnIn.filteredUrls = <<>>

\* more than 20 filtered URLs all carry a keyword: the first 20 are targeted
C32_Witness ==
    /\ TargetReturned
    /\ Len(fnIn.filteredUrls) > 20
    /\ Len(fnOut.value) = 20
    /\ HasCoarseKeyword(fnIn.filteredUrls[Len(fnIn.filteredUrls)])

---------------------------------------------------------------------------
(* C33: spellings of one name *)

NormalizeReturned == fnIn.fn = "normalizeIdentity" /\ fnOut.state = "returned"

\* C33: two names or organization strings that differ only in letter case,
\* diacritics, punctuation or amount of whitespace normalize to the same
\* identity token, wherever in the string the difference occurs.
C33_SpellingsShareOneToken ==
    NormalizeReturned =>
        /\ fnOut.value.value[1] = fnOut.value.value[2]
        /\ fnOut.value.token[1] = fnOut.value.token[2]

---------------------------------------------------------------------------
(* C34: organization rows over sequential persist calls *)

\* the appearances of the input that name an organization normalizing to the name
SightingsOf(input, normalized) ==
    SelectSeq(input.speakerAppearances,
              LAMBDA a : /\ normalizeTextValue(a.organization) # Undefined
                         /\ normalizeIdentityValue(a.organization) = normalized)

SightingsIn(i, normalized) == SightingsOf(persistCalls[i].input, normalized)

\* the first call in which the normalized name appears
FirstSightingCall(normalized) ==
    CHOOSE i \in 1..Len(persistCalls) :
        /\ SightingsIn(i, normalized) # <<>>
        /\ \A j \in 1..(i - 1) : SightingsIn(j, normalized) = <<>>

OneRowPerSightedName ==
    /\ \A a, b \in 1..Len(db.organizations) :
          db.organizations[a].normalized_name = db.organizations[b].normalized_name => a = b
    /\ \A a \in 1..Len(db.organizations) :
          /\ \E i \in 1..Len(persistCalls) :
                SightingsIn(i, db.organizations[a].normalized_name) # <<>>
          /\ db.organizations[a].name =
                trim(SightingsIn(FirstSightingCall(db.organizations[a].normalized_name),
                                 db.organizations[a].normalized_name)[1].organization)

\* a call leaves the rows it found as they were and adds rows only for names
\* no earlier call had sighted
RowsAreKept ==
    /\ Len(db'.organizations) >= Len(db.organizations)
    /\ SubSeq(db'.organizations, 1, Len(db.organizations)) = db.organizations
    /\ \A a \in (Len(db.organizations) + 1)..Len(db'.organizations) :
          /\ SightingsOf(persistCalls'[Len(persistCalls')].input,
                         db'.organizations[a].normalized_name) # <<>>
          /\ \A j \in 1..Len(persistCalls) :
                SightingsIn(j, db'.organizations[a].normalized_name) = <<>>

\* C34: after any sequence of sequentially executed persist calls there is at
\* most one organization row per normalized name, it is created by the first
\* call in which that normalized name appears, and its display name stays the
\* raw name of that first sighting in all later calls.
C34_OneOrganizationPerNormalizedName ==
    /\ []OneRowPerSightedName
    /\ [][RowsAreKept]_vars

\* Acme Inc. was created by the first call; a later call that spells it ACME, INC. left it alone
C34_Witness ==
    /\ Len(persistCalls) = 2
    /\ persistCalls[1].input.speakerAppearances = <<AppJaneProfile>>
    /\ persistCalls[2].input.speakerAppearances = <<AppJaneNoProfile>>
    /\ db.organizations = <<[id |-> 1, name |-> <<"A", "c", "m", "e", " ", "I", "n", "c", ".">>, normalized_name |-> <<"a", "c", "m", "e", " ", "i", "n", "c">>]>>

---------------------------------------------------------------------------
(* C35: the sessions of one persist call *)

LastCall == persistCalls[Len(persistCalls)]

\* the extracted sessions of the call that have a title and a URL that parses
KeptSessions ==
    SelectSeq(LastCall.input.sessions,
              LAMBDA s : /\ normalizeTextValue(s.title) # Undefined
                         /\ normalizeUrlValue(s.url) # Undefined)

\* their URLs without fragment
KeptUrls == {normalizeUrlValue(KeptSessions[k].url) : k \in 1..Len(KeptSessions)}

\* the first of them, in extraction order, with the URL
FirstWithUrl(url) ==
    KeptSessions[CHOOSE k \in 1..Len(KeptSessions) :
                    /\ normalizeUrlValue(KeptSessions[k].url) = url
                    /\ \A j \in 1..(k - 1) : normalizeUrlValue(KeptSessions[j].url) # url]

\* the rows of the call's event with the URL
SessionRowsAt(url) ==
    {i \in 1..Len(db.sessions) :
        db.sessions[i].event_id = LastCall.input.eventId /\ db.sessions[i].url = url}

\* C35: within one persist call, sessions are keyed by fragment-stripped URL
\* and, when several extracted sessions share that URL, the session written
\* carries the title of the first of them in extraction order; sessionsFound
\* equals the number of distinct such URLs.
C35_FirstTitleWinsPerUrl ==
    Len(persistCalls) > 0 =>
        /\ {LastCall.sessionIdByUrl[k].key : k \in 1..Len(LastCall.sessionIdByUrl)} = KeptUrls
        /\ \A url \in KeptUrls :
              /\ Cardinality(SessionRowsAt(url)) = 1
              /\ \A i \in SessionRowsAt(url) :
                    db.sessions[i].title = trim(FirstWithUrl(url).title)
        /\ LastCall.sessionsFound = Cardinality(KeptUrls)

\* Agenda and Day 2 share the agenda URL once the fragment is stripped: the row is titled Agenda
C35_Witness ==
    /\ Len(persistCalls) > 0
    /\ LastCall.input.sessions = <<SessionAgenda, SessionAgendaDay2, SessionDirectory>>
    /\ LastCall.sessionsFound = 2
    /\ \E i \in 1..Len(db.sessions) :
          db.sessions[i].url = AgendaUrl /\ db.sessions[i].title = <<"A", "g", "e", "n", "d", "a">>

---------------------------------------------------------------------------
(* C36: the job row ends in a terminal status *)

JobCreated == job # NoJob

JobTerminal == job # NoJob /\ job.status \in {"complete", "failed"}

\* C36: every run that has created a job row eventually leaves that row in a
\* terminal status (complete or failed), under fair scheduling of the run's
\* steps and for every outcome (success or error) of each mapping, scrape and
\* persistence call, including an error of the write that records the failed
\* status.
C36_JobRowEndsTerminal == JobCreated ~> JobTerminal

---------------------------------------------------------------------------
(* C37: pagesProcessed and processedUrls in the job row *)

IsPrefixOf(s, t) == Len(s) <= Len(t) /\ SubSeq(t, 1, Len(s)) = s

\* C37: in every persisted snapshot of a job, counters.pagesProcessed equals
\* the length of the persisted processedUrls, and across successive snapshots
\* of the job processedUrls only grows: each snapshot's list is a prefix of the
\* next one's.
C37_PagesProcessedCountsProcessedUrls ==
    /\ [](job # NoJob => job.counters.pagesProcessed = Len(job.processedUrls))
    /\ [][job # NoJob => IsPrefixOf(job.processedUrls, job'.processedUrls)]_vars

\* a page failed after one was processed, and the run was then written as failed
C37_Witness ==
    /\ job.status = "failed"
    /\ Len(job.processedUrls) = 1
    /\ job.counters.pagesProcessed = 1
    /\ Len(run.scrapeErrors) = 1

---------------------------------------------------------------------------
(* C38: processedUrls and the scrape errors partition the pages attempted *)

ProcessedSet == Range(run.processedUrls)
FailedSet == {run.scrapeErrors[i][1] : i \in 1..Len(run.scrapeErrors)}
PagesDone == Len(run.processedUrls) + Len(run.scrapeErrors)

ListsPartitionAttempted ==
    /\ ProcessedSet \cap FailedSet = {}
    /\ PagesDone <= Len(run.targetedSessionUrls)
    /\ ProcessedSet \cup FailedSet = {run.targetedSessionUrls[i] : i \in 1..PagesDone}
    /\ Cardinality(ProcessedSet \cup FailedSet) = PagesDone
    /\ run.pageIndex > 0 => PagesDone \in {run.pageIndex - 1, run.pageIndex}

\* a URL is added to processedUrls by the strategy loop alone, for the page
\* in hand, when the strategy just run returned a session or an appearance
ProcessedOnlyWithResult ==
    run'.processedUrls # run.processedUrls =>
        /\ pc = "strategy_returned"
        /\ ~run.result.isNull
        /\ Len(run.result.sessions) + Len(run.result.appearances) > 0
        /\ run'.processedUrls = Append(run.processedUrls, sessionUrlOf(run))

\* C38: at every point of the page loop a targeted URL is in at most one of
\* processedUrls and the scrape-error list, the two lists together hold
\* exactly the pages attempted so far, and a URL is in processedUrls only if
\* some strategy returned at least one session or appearance for it; hence
\* processedUrlsCount + scrapeErrorsCount = targetedSessionUrlsCount <= 20 in
\* a successful response.
C38_ProcessedAndFailedPartitionAttempted ==
    /\ []ListsPartitionAttempted
    /\ [][ProcessedOnlyWithResult]_vars
    /\ [](response.status = 200 =>
            /\ PagesDone = Len(run.targetedSessionUrls)
            /\ Len(run.targetedSessionUrls) <= MAX_SESSION_PAGES)

\* the site has 22 agenda pages: 20 were visited, the first was processed and 19 failed
C38_Witness ==
    /\ response.status = 200
    /\ Len(site.map.links) = 22
    /\ Len(run.targetedSessionUrls) = 20
    /\ Len(run.processedUrls) = 1
    /\ Len(run.scrapeErrors) = 19

---------------------------------------------------------------------------
(* C39: a terminal job row is final, and 200 means complete was written *)

\* C39: once a job row has status complete or failed, the run issues no
\* further update to it: a job never moves from complete to failed or from
\* failed to any other status, and the endpoint answers 200 only when the
\* job's complete status was written successfully.
C39_TerminalRowIsFinal ==
    /\ [](JobTerminal => pc = "done")
    /\ [][JobTerminal => job' = job /\ jobWrites' = jobWrites]_vars
    /\ [](response.status = 200 =>
            /\ job # NoJob
            /\ job.status = "complete"
            /\ jobWrites # <<>>
            /\ jobWrites[Len(jobWrites)] = "complete")

\* a database call after the saving update failed, the failed update was written, the answer is 500
C39_Witness ==
    /\ JobTerminal
    /\ job.status = "failed"
    /\ run.message = DbErrorMessage
    /\ Len(jobWrites) >= 2
    /\ jobWrites[Len(jobWrites) - 1] = "saving"
    /\ response.status = 500

---------------------------------------------------------------------------
(* C40: a strategy's appearances are folded by key, the first one kept *)

PairwiseDistinctKeys(appearances) ==
    \A i \in 1..Len(appearances) : \A j \in 1..Len(appearances) :
        i # j => speakerAppearanceKey(appearances[i]) # speakerAppearanceKey(appearances[j])

\* every entry of the map sits under the key of the appearance it holds
KeyedByOwnKey(m) == \A i \in 1..Len(m) : m[i].key = speakerAppearanceKey(m[i].value)

\* the pass loop or the probe has returned a result to the strategy loop
FoldingStrategyReturned ==
    /\ pc = "strategy_returned"
    /\ ~run.result.isNull
    /\ run.result.stopReason # "single_session_pass"

FoldedMap == IF run.strategyIndex = 1 THEN api.unique ELSE fb.uniqueAppearanceMap

\* C40: the appearances returned by one strategy invocation (Structured-Content
\* Scrape pass loop or Network-Response Probe) have pairwise distinct identity
\* keys, and for each key the appearance kept is the first one seen for that
\* key; later passes or responses never replace it.
C40_FirstAppearanceKeptPerKey ==
    /\ [](KeyedByOwnKey(api.unique) /\ KeyedByOwnKey(fb.uniqueAppearanceMap))
    /\ [](\A capture \in HandledCaptures :
             \A k \in 1..Len(capture.candidates) :
                 MapHas(api.unique, appearanceKey(capture.candidates[k])))
    /\ [](FoldingStrategyReturned =>
            /\ run.result.appearances = MapValues(FoldedMap)
            /\ PairwiseDistinctKeys(run.result.appearances))
    /\ [][/\ IsPrefixOf(api.unique, api'.unique)
          /\ IsPrefixOf(fb.uniqueAppearanceMap, fb'.uniqueAppearanceMap)]_vars

\* the pass loop returned Jane Doe once, without the title a later entry gave her
C40_Witness ==
    /\ FoldingStrategyReturned
    /\ run.strategyIndex = 2
    /\ fb.passIndex > 2
    /\ \E i \in 1..Len(run.result.appearances) :
         /\ run.result.appearances[i].name = <<"J", "a", "n", "e", " ", "D", "o", "e">>
         /\ run.result.appearances[i].title = Undefined
    /\ \E i \in 1..Len(run.result.artifacts) :
         run.result.artifacts[i].jsonText = <<"{", "s", "p", "e", "a", "k", "e", "r", "s", "}">>

=============================================================================
